---- MODULE Spec2Model ----
(***************************************************************************)
(* A model of the step-table / summary / merge engine of cellpy's          *)
(* arbinreader (src/cellpy/readers/arbinreader.py, class arbindata).       *)
(*                                                                         *)
(* Numbers.  The raw signals are floats in the code.  Here every raw value *)
(* is an integer and every computed value is an exact fraction             *)
(* [n |-> numerator, d |-> denominator >= 0] in lowest terms.  A zero      *)
(* denominator carries the IEEE results of numpy.float64 arithmetic:       *)
(* [n |-> 1, d |-> 0] is inf, [n |-> -1, d |-> 0] is -inf and              *)
(* [n |-> 0, d |-> 0] is nan.  Python's own float raises                   *)
(* ZeroDivisionError instead; np_float tells which of the two the values   *)
(* read out of a data frame row are (numpy.float64 for an all-numeric      *)
(* frame, float for a frame of mixed column types).                        *)
(***************************************************************************)
EXTENDS Integers, Sequences, FiniteSets, TLC

VARIABLES
    tests,      \* arbindata.tests: the datasets held by the reader
    np_float,   \* TRUE: row values are numpy.float64; FALSE: Python float
    exc,        \* the exception that escaped the last call, or "none"
    call,       \* the last call made on the reader: [op |-> ..., arguments]
    held,       \* the datasets merge() folded into the first one: gone from
                \* tests, still referenced by whoever loaded them
    pct,        \* the last direct call of _percentage_change and its result
    selected_test_number,   \* arbindata.selected_test_number, or None
    batch       \* the summaries of the cells of a batch, in the order of
                \* b.experiment.cell_names (utils.helpers)

vars == <<tests, np_float, exc, call, held, pct, selected_test_number,
          batch>>

\* ------------------------------------------------------------------ bounds
MaxVal == 3        \* _percentage_change is tried on x0, x1 in -MaxVal..MaxVal
MaxRows == 3       \* rows of a raw table in the step-table specification
MaxCycle == 3      \* cycles are numbered within 1..MaxCycle
MaxMergeCycles == 2   \* cycles of a dataset that is merged with another
MaxStartGap == 2      \* ticks between the starts of two merged datasets
MaxDataPoint == 12    \* the largest Data_Point a merge may number a row
MaxYankCycles == 3     \* cycles of the summary of a cell that is yanked
MaxLoaded == 4         \* datasets a reader holds after its loadcell calls

\* ------------------------------------------------------------ exact numbers
Abs(x) == IF x < 0 THEN -x ELSE x

Sgn(x) == IF x < 0 THEN -1 ELSE IF x > 0 THEN 1 ELSE 0

RECURSIVE GCD(_, _)
GCD(a, b) == IF b = 0 THEN a ELSE GCD(b, a % b)

\* The fraction n/d in lowest terms with d >= 0 (d = 0: inf, -inf, nan).
Q(n, d) ==
    IF d = 0 THEN [n |-> Sgn(n), d |-> 0]
    ELSE LET g == GCD(Abs(n), Abs(d))
             s == IF d < 0 THEN -1 ELSE 1
         IN  [n |-> (s * n) \div g, d |-> Abs(d) \div g]

QInt(i) == [n |-> i, d |-> 1]
NaN == [n |-> 0, d |-> 0]
IsNaN(a) == a.n = 0 /\ a.d = 0
IsFinite(a) == a.d # 0

QMul(a, b) == Q(a.n * b.n, a.d * b.d)
QDiv(a, b) == IF b.n < 0 THEN Q(-(a.n * b.d), -(a.d * b.n))
                         ELSE Q(a.n * b.d, a.d * b.n)
QAdd(a, b) == IF a.d = 0 /\ b.d = 0
              THEN (IF a.n = b.n THEN a ELSE NaN)
              ELSE Q(a.n * b.d + b.n * a.d, a.d * b.d)
QNeg(a) == [n |-> -a.n, d |-> a.d]
QSub(a, b) == QAdd(a, QNeg(b))
QAbs(a) == [n |-> Abs(a.n), d |-> a.d]
\* Comparisons as IEEE makes them: every comparison with nan is false.
QLt(a, b) == /\ ~IsNaN(a) /\ ~IsNaN(b)
             /\ IF a.d = 0 /\ b.d = 0 THEN a.n < b.n
                ELSE a.n * b.d < b.n * a.d
QGt(a, b) == QLt(b, a)
QEq(a, b) == ~IsNaN(a) /\ ~IsNaN(b) /\ a = b

\* A call's outcome: a value, or the exception it raised.
Ok(v) == [exc |-> "none", val |-> v]
Raise(e) == [exc |-> e, val |-> NaN]

\* float.__div__ / numpy.float64.__div__: a / b for the two kinds of float.
Divide(a, b, np) ==
    IF b.n = 0 /\ b.d = 1 /\ ~np THEN Raise("ZeroDivisionError")
    ELSE Ok(QDiv(a, b))

\* ------------------------------------------------------ _percentage_change
_percentage_change(x0, x1, default_zero, np) ==
    IF x1.n = 0 /\ x1.d = 1
    THEN LET difference == QSub(x1, x0)
         IN  IF ~QEq(difference, QInt(0)) /\ default_zero THEN Ok(QInt(0))
             ELSE Ok(difference)
    ELSE Divide(QMul(QSub(x1, x0), QInt(100)), x0, np)

\* ------------------------------------------------------------------ tables
\* A pandas DataFrame: its column names in order and its rows in order, each
\* row a record from (at least) the column names to values.
Table(columns, rows) == [columns |-> columns, rows |-> rows]

RECURSIVE SeqMax(_)
SeqMax(s) == IF Len(s) = 1 THEN s[1]
             ELSE LET m == SeqMax(Tail(s)) IN IF s[1] > m THEN s[1] ELSE m

RECURSIVE SeqMin(_)
SeqMin(s) == IF Len(s) = 1 THEN s[1]
             ELSE LET m == SeqMin(Tail(s)) IN IF s[1] < m THEN s[1] ELSE m

RECURSIVE SeqSum(_)
SeqSum(s) == IF s = <<>> THEN 0 ELSE s[1] + SeqSum(Tail(s))

Range(f) == {f[i] : i \in DOMAIN f}

Column(rows, col) == [i \in 1..Len(rows) |-> rows[i][col]]

\* Series.unique(): the distinct values in order of first appearance.
RECURSIVE Unique(_)
Unique(s) ==
    IF s = <<>> THEN <<>>
    ELSE LET u == Unique(SubSeq(s, 1, Len(s) - 1))
             x == s[Len(s)]
         IN  IF \E i \in 1..Len(u) : u[i] = x THEN u ELSE Append(u, x)

\* Column headings of the raw table (Channel_Normal_Table).
RawColumns == <<"Data_Point", "Test_Time", "Step_Time", "DateTime",
                "Step_Index", "Cycle_Index", "Current", "Voltage",
                "Charge_Capacity", "Discharge_Capacity",
                "Internal_Resistance">>

\* Column headings of the step table.  The four *_std columns of the code are
\* left out: a standard deviation is not a fraction, and nothing reads them.
StepColumns == <<"cycle", "step",
    "I_avr", "I_max", "I_min", "I_start", "I_end", "I_delta", "I_rate",
    "V_avr", "V_max", "V_min", "V_start", "V_end", "V_delta", "V_rate",
    "Charge_avr", "Charge_max", "Charge_min", "Charge_start", "Charge_end",
    "Charge_delta", "Charge_rate",
    "Discharge_avr", "Discharge_max", "Discharge_min", "Discharge_start",
    "Discharge_end", "Discharge_delta", "Discharge_rate",
    "IR", "IR_pct_change", "type", "info">>

list_of_step_types == {"charge", "discharge", "cv_charge", "cv_discharge",
                       "charge_cv", "discharge_cv", "ocvrlx_up",
                       "ocvrlx_down", "ir", "rest", "not_known"}

\* The value pandas leaves in a cell of an object column nothing was written
\* to (the type and info columns of the freshly made step table).
NaNText == "nan"

\* ---------------------------------------------------- _extract_step_values
\* mean, max, min, first, last, delta and rate of one signal of a step.
SignalRecord(x, delta, rate) ==
    [exc |-> rate.exc,
     avr |-> Q(SeqSum(x), Len(x)), max |-> QInt(SeqMax(x)),
     min |-> QInt(SeqMin(x)), start |-> QInt(x[1]), end |-> QInt(x[Len(x)]),
     delta |-> delta.val, rate |-> rate.val]

\* rate = delta / t_delta, unless computing delta already raised.
SignalRate(x, delta, t_delta, np) ==
    SignalRecord(x, delta, IF delta.exc # "none" THEN delta
                           ELSE Divide(delta.val, t_delta, np))

SignalStats(f, col, t_delta, np) ==
    SignalRate(Column(f, col),
               _percentage_change(QInt(f[1][col]), QInt(f[Len(f)][col]),
                                  TRUE, np),
               t_delta, np)

\* The dictionary _extract_step_values returns, from the four signals.
StepValues(f, I, V, C, D) ==
    [exc |-> IF I.exc # "none" THEN I.exc
             ELSE IF V.exc # "none" THEN V.exc
             ELSE IF C.exc # "none" THEN C.exc ELSE D.exc,
     val |-> [I_avr |-> I.avr, I_max |-> I.max, I_min |-> I.min,
              I_start |-> I.start, I_end |-> I.end,
              I_delta |-> I.delta, I_rate |-> I.rate,
              V_avr |-> V.avr, V_max |-> V.max, V_min |-> V.min,
              V_start |-> V.start, V_end |-> V.end,
              V_delta |-> V.delta, V_rate |-> V.rate,
              Charge_avr |-> C.avr, Charge_max |-> C.max,
              Charge_min |-> C.min, Charge_start |-> C.start,
              Charge_end |-> C.end, Charge_delta |-> C.delta,
              Charge_rate |-> C.rate,
              Discharge_avr |-> D.avr, Discharge_max |-> D.max,
              Discharge_min |-> D.min, Discharge_start |-> D.start,
              Discharge_end |-> D.end, Discharge_delta |-> D.delta,
              Discharge_rate |-> D.rate,
              IR |-> QInt(f[1].Internal_Resistance),
              IR_pct_change |-> f[1].IR_pct_change]]

\* t_end - t_start of the step.
StepDuration(f) == QInt(f[Len(f)].Step_Time - f[1].Step_Time)

_extract_step_values(f, np) ==
    StepValues(f, SignalStats(f, "Current", StepDuration(f), np),
                  SignalStats(f, "Voltage", StepDuration(f), np),
                  SignalStats(f, "Charge_Capacity", StepDuration(f), np),
                  SignalStats(f, "Discharge_Capacity", StepDuration(f), np))

\* -------------------------------------------------------- create_step_table
\* Hard and soft limits of the classification.  The current limit (1e-13 A)
\* lies below the resolution of the model's currents, which are whole numbers
\* averaged over at most a handful of rows; one millionth stands for it.
current_limit_value_hard == Q(1, 1000000)
stable_current_limit_soft == QInt(4)
stable_voltage_limit_hard == QInt(2)
stable_charge_limit_hard == QInt(2)

\* A mutant: the change of Internal_Resistance taken within a step only, nan
\* on the first row of every step.
IRPctChangeWithinStep(rows, i) ==
    IF \/ i = 1
       \/ rows[i].Cycle_Index # rows[i - 1].Cycle_Index
       \/ rows[i].Step_Index # rows[i - 1].Step_Index
    THEN NaN
    ELSE QSub(QDiv(QInt(rows[i].Internal_Resistance),
                   QInt(rows[i - 1].Internal_Resistance)), QInt(1))

\* Series.pct_change() of the Internal_Resistance column of the whole raw
\* table: nan for the first row, x[i] / x[i-1] - 1 after it.
IRPctChange(rows, i) ==
    IF i = 1 THEN NaN
    ELSE QSub(QDiv(QInt(rows[i].Internal_Resistance),
                   QInt(rows[i - 1].Internal_Resistance)), QInt(1))

\* df[step_table_txt_ir_change] = ...: the raw table itself gets the column.
AddIRChangeColumn(df) ==
    Table(IF \E k \in 1..Len(df.columns) : df.columns[k] = "IR_pct_change"
          THEN df.columns ELSE Append(df.columns, "IR_pct_change"),
          [i \in 1..Len(df.rows) |->
              ("IR_pct_change" :> IRPctChange(df.rows, i)) @@ df.rows[i]])

RECURSIVE Flatten(_)
Flatten(ss) == IF ss = <<>> THEN <<>> ELSE ss[1] \o Flatten(Tail(ss))

\* A mutant: a new step wherever the (cycle, step) pair changes from one raw
\* row to the next, as if the groups were contiguous.
StepPairsByChange(rows) ==
    LET starts == SelectSeq([i \in 1..Len(rows) |-> i], LAMBDA i :
                     \/ i = 1
                     \/ rows[i].Cycle_Index # rows[i - 1].Cycle_Index
                     \/ rows[i].Step_Index # rows[i - 1].Step_Index)
    IN  [k \in 1..Len(starts) |->
            <<rows[starts[k]].Cycle_Index, rows[starts[k]].Step_Index>>]

\* The (cycle, step) pairs in the order the two nested loops visit them.
StepPairs(rows) ==
    LET list_of_cycles == Unique(Column(rows, "Cycle_Index"))
        StepsOf(cycle) ==
            LET df_cycle == SelectSeq(rows, LAMBDA r : r.Cycle_Index = cycle)
                steps == Unique(Column(df_cycle, "Step_Index"))
            IN  [k \in 1..Len(steps) |-> <<cycle, steps[k]>>]
    IN  Flatten([c \in 1..Len(list_of_cycles) |-> StepsOf(list_of_cycles[c])])

\* The masks of one step-table row.
\* A mutant: a step counts as without current while its currents stay below
\* five.
NoCurrentBelowFive(r) == QLt(QAdd(QAbs(r.I_max), QAbs(r.I_min)), QInt(5))

mask_no_current_hard(r) ==
    QLt(QAdd(QAbs(r.I_max), QAbs(r.I_min)), current_limit_value_hard)
mask_voltage_down(r) == QLt(r.V_delta, QNeg(stable_voltage_limit_hard))
\* A mutant: the voltage counts as rising only beyond ten percent.
VoltageUpBeyondTen(r) == QGt(r.V_delta, QInt(10))

mask_voltage_up(r) == QGt(r.V_delta, stable_voltage_limit_hard)
mask_voltage_stable(r) == QLt(QAbs(r.V_delta), stable_voltage_limit_hard)
mask_current_down(r) == QLt(r.I_delta, QNeg(stable_current_limit_soft))
mask_current_negative(r) == QLt(r.I_avr, QNeg(current_limit_value_hard))
mask_current_positive(r) == QGt(r.I_avr, current_limit_value_hard)
mask_charge_changed(r) == QGt(QAbs(r.Charge_delta), stable_charge_limit_hard)
mask_discharge_changed(r) ==
    QGt(QAbs(r.Discharge_delta), stable_charge_limit_hard)
mask_no_change(r) ==
    /\ QEq(r.V_delta, QInt(0)) /\ QEq(r.I_delta, QInt(0))
    /\ QEq(r.Charge_delta, QInt(0)) /\ QEq(r.Discharge_delta, QInt(0))

\* The rules in the order of the df_steps.loc[mask, type] = ... assignments.
Rules == <<"ocvrlx_up", "ocvrlx_down", "discharge", "charge",
           "cv_discharge", "cv_charge", "ir">>

Matches(r, rule) ==
    CASE rule = "ocvrlx_up" -> mask_no_current_hard(r) /\ mask_voltage_up(r)
      [] rule = "ocvrlx_down" ->
            mask_no_current_hard(r) /\ mask_voltage_down(r)
      [] rule = "discharge" ->
            mask_discharge_changed(r) /\ mask_current_negative(r)
      [] rule = "charge" -> mask_charge_changed(r) /\ mask_current_positive(r)
      [] rule = "cv_discharge" ->
            /\ mask_voltage_stable(r) /\ mask_current_negative(r)
            /\ mask_current_down(r)
      [] rule = "cv_charge" ->
            /\ mask_voltage_stable(r) /\ mask_current_positive(r)
            /\ mask_current_down(r)
      [] rule = "ir" -> mask_no_change(r)

\* A mutant: the first matching rule keeps the row.
RECURSIVE FirstMatch(_, _)
FirstMatch(r, k) ==
    IF k > Len(Rules) THEN NaNText
    ELSE IF Matches(r, Rules[k]) THEN Rules[k] ELSE FirstMatch(r, k + 1)

StepTypeFirstMatch(r) == FirstMatch(r, 1)

\* The type cell of a row after all the assignments, each of which
\* overwrites what an earlier one wrote.
RECURSIVE AssignTypes(_, _, _)
AssignTypes(r, k, type) ==
    IF k > Len(Rules) THEN type
    ELSE AssignTypes(r, k + 1, IF Matches(r, Rules[k]) THEN Rules[k] ELSE type)

StepType(r) == AssignTypes(r, 1, NaNText)

\* One row of df_steps: cycle, step, the extracted values, type and info.
TypedRow(values) == [type |-> StepType(values), info |-> NaNText] @@ values

StepRowOf(pair, result) ==
    [exc |-> result.exc,
     val |-> TypedRow([cycle |-> pair[1], step |-> pair[2]] @@ result.val)]

StepRow(rows, pair, np) ==
    StepRowOf(pair, _extract_step_values(
        SelectSeq(rows, LAMBDA r : /\ r.Cycle_Index = pair[1]
                                   /\ r.Step_Index = pair[2]), np))

\* The rows of df_steps, one for every pair the loops visit.
StepRowsOf(rows, pairs, np) ==
    [k \in 1..Len(pairs) |-> StepRow(rows, pairs[k], np)]

\* The end of create_step_table: an exception of a row escapes before the
\* table is stored; the raw table has its new column either way.
StoreStepTable(test, df, built) ==
    IF \E k \in 1..Len(built) : built[k].exc # "none"
    THEN [exc |-> SelectSeq(built, LAMBDA b : b.exc # "none")[1].exc,
          test |-> [test EXCEPT !.dfdata = df]]
    ELSE [exc |-> "none",
          test |-> [test EXCEPT
              !.dfdata = df,
              !.step_table =
                  Table(StepColumns, [k \in 1..Len(built) |-> built[k].val]),
              !.step_table_made = TRUE]]

StepTableFrom(test, df, np) ==
    StoreStepTable(test, df, StepRowsOf(df.rows, StepPairs(df.rows), np))

\* create_step_table on one dataset: the dataset after the call and the
\* exception that escaped it.
create_step_table(test, np) ==
    StepTableFrom(test, AddIRChangeColumn(test.dfdata), np)

\* ------------------------------------------------------------ _make_summary
\* datetime.datetime(1899, 12, 30) + datetime.timedelta(days = xldate): the
\* whole days and the seconds into the day of a serial date.
TicksPerDay == 144
SecondsPerTick == 600

xldate_as_datetime(xldate) ==
    [days |-> xldate \div TicksPerDay,
     seconds |-> (xldate % TicksPerDay) * SecondsPerTick]

\* option = "to_string": the datetime formatted to whole seconds.
xldate_as_string(xldate) ==
    LET d == xldate_as_datetime(xldate)
    IN  <<"%Y-%m-%d %H:%M:%S", d.days, d.seconds>>

\* (b - a).total_seconds() of two datetimes.
total_seconds(b, a) == (b.days - a.days) * 86400 + (b.seconds - a.seconds)

\* _select_last: the Data_Point of the last row of every cycle 1..max cycle.
\* max() of an empty selection raises ValueError.
_select_last(dfdata) ==
    LET rows == dfdata.rows
        max_step == SeqMax(Column(rows, "Cycle_Index"))
        OfCycle(j) == SelectSeq(rows, LAMBDA r : r.Cycle_Index = j)
    IN  IF rows = <<>> THEN [exc |-> "ValueError", val |-> {}]
        ELSE IF \E j \in 1..max_step : OfCycle(j) = <<>>
        THEN [exc |-> "ValueError", val |-> {}]
        ELSE [exc |-> "none",
              val |-> {SeqMax(Column(OfCycle(j), "Data_Point")) :
                          j \in 1..max_step}]

\* Series.cumsum().
RECURSIVE CumSum(_, _)
CumSum(x, j) == IF j = 1 THEN x[1] ELSE QAdd(CumSum(x, j - 1), x[j])

\* A column put behind the others instead of in front of them.
InsertLast(columns, name) == Append(columns, name)

\* DataFrame.insert(0, column, value).
Insert0(columns, name) == <<name>> \o columns

\* set_col_first: every name of col_names is moved to the front in turn; a
\* name that is no column ends the loop (the finally clause returns).
RECURSIVE set_col_first(_, _)
set_col_first(column_headings, col_names) ==
    IF col_names = <<>> THEN column_headings
    ELSE IF ~\E k \in 1..Len(column_headings) :
                column_headings[k] = col_names[1]
    THEN column_headings
    ELSE set_col_first(
            <<col_names[1]>> \o
                SelectSeq(column_headings, LAMBDA c : c # col_names[1]),
            Tail(col_names))

\* get_step_numbers(steptype, allctypes = False)[cycle] once the step table
\* is there: the steps of that type in the cycle, [0] when there is none.
get_step_numbers(test, steptype, cycle) ==
    LET st == SelectSeq(test.step_table.rows,
                        LAMBDA r : r.type = steptype /\ r.cycle = cycle)
    IN  IF st = <<>> THEN <<0>> ELSE Column(st, "step")

\* The values of column col logged in (cycle, step).
ValuesOfStep(test, cycle, step, col) ==
    Column(SelectSeq(test.dfdata.rows,
                     LAMBDA r : r.Cycle_Index = cycle /\ r.Step_Index = step),
           col)

\* The end voltage read from the first row logged in the step instead of the
\* last one.
StartVoltage(test, steptype, cycle) ==
    LET step == get_step_numbers(test, steptype, cycle)
        v == ValuesOfStep(test, cycle, step[Len(step)], "Voltage")
    IN  IF step[Len(step)] = 0 THEN Ok(QInt(0))
        ELSE IF v = <<>> THEN Raise("IndexError")
        ELSE Ok(QInt(v[1]))

\* find_end_voltage for one cycle: the last voltage of the last step of the
\* type, 0 without such a step.
EndVoltage(test, steptype, cycle) ==
    LET step == get_step_numbers(test, steptype, cycle)
        v == ValuesOfStep(test, cycle, step[Len(step)], "Voltage")
    IN  IF step[Len(step)] = 0 THEN Ok(QInt(0))
        ELSE IF v = <<>> THEN Raise("IndexError")
        ELSE Ok(QInt(v[Len(v)]))

\* find_ir for one cycle: the first resistance of the first step of the type.
FirstIR(test, steptype, cycle) ==
    LET step == get_step_numbers(test, steptype, cycle)
        v == ValuesOfStep(test, cycle, step[1], "Internal_Resistance")
    IN  IF step[1] = 0 THEN Ok(QInt(0))
        ELSE IF v = <<>> THEN Raise("IndexError")
        ELSE Ok(QInt(v[1]))

\* The columns every summary gets, in the order they are inserted at the front.
CoreInserted == <<"Discharge_Capacity(mAh/g)", "Charge_Capacity(mAh/g)",
                  "Cumulated_Charge_Capacity(mAh/g)",
                  "Coulombic_Efficiency(percentage)",
                  "Coulombic_Difference(mAh/g)",
                  "Cumulated_Coulombic_Difference(mAh/g)",
                  "Discharge_Capacity_Loss(mAh/g)",
                  "Charge_Capacity_Loss(mAh/g)",
                  "Cumulated_Discharge_Capacity_Loss(mAh/g)",
                  "Cumulated_Charge_Capacity_Loss(mAh/g)">>

RECURSIVE InsertAll(_, _)
InsertAll(columns, names) ==
    IF names = <<>> THEN columns
    ELSE InsertAll(Insert0(columns, names[1]), Tail(names))

\* A loss column with the previous row's capacity taken from the current
\* one: the sign of the loop turned round.
CapacityGain(cap, j) ==
    IF j = 1 THEN QInt(0) ELSE QSub(cap[j], cap[j - 1])

\* The loop over the index of a loss column: 0.0 for the first row, else the
\* capacity of the row before minus the capacity of the row.
CapacityLoss(cap, j) ==
    IF j = 1 THEN QInt(0) ELSE QSub(cap[j - 1], cap[j])

\* The core derivation over the selected rows sel, for a mass in mg.
CoreRows(sel, mass) ==
    LET n == Len(sel)
        dcap == [j \in 1..n |->
                    Q(sel[j].Discharge_Capacity * 1000000, mass)]
        ccap == [j \in 1..n |-> Q(sel[j].Charge_Capacity * 1000000, mass)]
        eff == [j \in 1..n |->
                   QDiv(QInt(100 * sel[j].Charge_Capacity),
                        QInt(sel[j].Discharge_Capacity))]
        diff == [j \in 1..n |-> QSub(ccap[j], dcap[j])]
        dloss == [j \in 1..n |-> CapacityLoss(dcap, j)]
        closs == [j \in 1..n |-> CapacityLoss(ccap, j)]
    IN  [j \in 1..n |->
            ("Discharge_Capacity(mAh/g)" :> dcap[j]) @@
            ("Charge_Capacity(mAh/g)" :> ccap[j]) @@
            ("Cumulated_Charge_Capacity(mAh/g)" :> CumSum(ccap, j)) @@
            ("Coulombic_Efficiency(percentage)" :> eff[j]) @@
            ("Coulombic_Difference(mAh/g)" :> diff[j]) @@
            ("Cumulated_Coulombic_Difference(mAh/g)" :> CumSum(diff, j)) @@
            ("Discharge_Capacity_Loss(mAh/g)" :> dloss[j]) @@
            ("Charge_Capacity_Loss(mAh/g)" :> closs[j]) @@
            ("Cumulated_Discharge_Capacity_Loss(mAh/g)" :> CumSum(dloss, j)) @@
            ("Cumulated_Charge_Capacity_Loss(mAh/g)" :> CumSum(closs, j)) @@
            ("date_time_txt" :> xldate_as_string(sel[j].DateTime)) @@
            sel[j]]

\* if ensure_step_table: create the step table unless it is made.
EnsureStepTable(test, opts, np) ==
    IF opts.ensure_step_table /\ ~test.step_table_made
    THEN create_step_table(test, np)
    ELSE [exc |-> "none", test |-> test]

\* The Data_Point values of the rows the summary is built on: those listed
\* in the stored statistics table, or the last of every cycle.
SummaryPoints(test, opts) ==
    IF opts.use_arbin_stat_file
    THEN [exc |-> "none",
          val |-> Range(Column(test.dfsummary.rows, "Data_Point"))]
    ELSE _select_last(test.dfdata)

\* dfsummary = dfdata[summary_requirement], the core columns inserted and
\* date_time_txt appended: a copy made of the raw table as it is now.
CoreSummary(test, wanted) ==
    Table(Append(InsertAll(test.dfdata.columns, CoreInserted),
                 "date_time_txt"),
          CoreRows(SelectSeq(test.dfdata.rows,
                             LAMBDA r : r.Data_Point \in wanted), test.mass))

\* get_step_numbers creates a missing step table on its first call.
StepTableOnDemand(test, opts, np) ==
    IF (opts.find_end_voltage \/ opts.find_ir) /\ ~test.step_table_made
    THEN create_step_table(test, np)
    ELSE [exc |-> "none", test |-> test]

\* What find_end_voltage and find_ir look up for one cycle.
Lookups(test, cycle) ==
    [endv_dc |-> EndVoltage(test, "discharge", cycle),
     endv_c |-> EndVoltage(test, "charge", cycle),
     ir_dc |-> FirstIR(test, "discharge", cycle),
     ir_c |-> FirstIR(test, "charge", cycle)]

LookupsOf(test, rows) ==
    [j \in 1..Len(rows) |-> Lookups(test, rows[j].Cycle_Index)]

\* The exception of the lookups the options ask for, "none" without one.
LookupException(looked, opts) ==
    IF \E j \in 1..Len(looked) :
          \/ opts.find_end_voltage /\ looked[j].endv_dc.exc # "none"
          \/ opts.find_end_voltage /\ looked[j].endv_c.exc # "none"
          \/ opts.find_ir /\ looked[j].ir_dc.exc # "none"
          \/ opts.find_ir /\ looked[j].ir_c.exc # "none"
    THEN "IndexError" ELSE "none"

\* The columns the options insert at the front, the later insert first.
LookupColumns(columns, opts) ==
    InsertAll(columns,
              (IF opts.find_end_voltage
               THEN <<"end_voltage_discharge", "end_voltage_charge">>
               ELSE <<>>) \o
              (IF opts.find_ir THEN <<"ir_discharge", "ir_charge">>
               ELSE <<>>))

LookupRow(row, looked, opts) ==
    (IF opts.find_ir
     THEN ("ir_discharge" :> looked.ir_dc.val) @@
          ("ir_charge" :> looked.ir_c.val)
     ELSE <<>>) @@
    (IF opts.find_end_voltage
     THEN ("end_voltage_discharge" :> looked.endv_dc.val) @@
          ("end_voltage_charge" :> looked.endv_c.val)
     ELSE <<>>) @@
    row

\* The end of _make_summary: the columns sorted, the table stored.
StoreSummary(test, core, looked, opts) ==
    IF LookupException(looked, opts) # "none"
    THEN [exc |-> LookupException(looked, opts), test |-> test]
    ELSE [exc |-> "none",
          test |-> [test EXCEPT
              !.dfsummary =
                  Table(set_col_first(LookupColumns(core.columns, opts),
                            <<"date_time_txt", "Test_Time", "Data_Point",
                              "Cycle_Index">>),
                        [j \in 1..Len(core.rows) |->
                            LookupRow(core.rows[j], looked[j], opts)]),
              !.dfsummary_made = TRUE]]

SummaryWithStepTable(stepped, core, opts) ==
    IF stepped.exc # "none" THEN stepped
    ELSE StoreSummary(stepped.test, core,
                      LookupsOf(stepped.test, core.rows), opts)

SummaryOfPoints(test, wanted, opts, np) ==
    IF wanted.exc # "none" THEN [exc |-> wanted.exc, test |-> test]
    ELSE SummaryWithStepTable(StepTableOnDemand(test, opts, np),
                              CoreSummary(test, wanted.val), opts)

SummaryOfEnsured(ensured, opts, np) ==
    IF ensured.exc # "none" THEN ensured
    ELSE SummaryOfPoints(ensured.test, SummaryPoints(ensured.test, opts),
                         opts, np)

\* _make_summary(test_number, find_ir, find_end_voltage, use_arbin_stat_file,
\* ensure_step_table) with convert_date and sort_my_columns at their
\* defaults and find_ocv off: the dataset after the call and the exception
\* that escaped it.
_make_summary(test, opts, np) ==
    SummaryOfEnsured(EnsureStepTable(test, opts, np), opts, np)

\* None of Python: the start_datetime dataset.__init__ sets and the
\* selected_test_number arbindata.__init__ sets.  Serial dates are not
\* negative and the datasets of the reader are numbered from 1 here
\* (self.tests[0] is tests[1]); a negative number stands for None.
None == -1

\* ------------------------------------------------------------------ find_ocv
\* _validate_test_number(n): n when it is given, else the selected test
\* number, else the first dataset.
_validate_test_number(n, selected) ==
    IF n # None THEN n
    ELSE IF selected = None THEN 1 ELSE selected

\* _select_step(cycle, step, test_number): the raw rows of the step in the
\* dataset the validated test number names.
_select_step(objs, cycle, step, test_number, selected) ==
    SelectSeq(objs[_validate_test_number(test_number, selected)].dfdata.rows,
              LAMBDA r : r.Cycle_Index = cycle /\ r.Step_Index = step)

\* The steps of ocv_steps[cycle] whose selection _get_ocv keeps: the call is
\* self._select_step(cycle, step), without a test number.
OcvStepsKept(objs, steps, cycle, selected) ==
    SelectSeq(steps, LAMBDA s :
        _select_step(objs, cycle, s, None, selected) # <<>>)

\* The voltages the loop over _get_ocv(...) leaves for a cycle: min and max
\* of the last selection kept for it, the zeros of only_zeros without one.
OcvOfKept(objs, kept, cycle, selected) ==
    IF kept = <<>> THEN [min |-> 0, max |-> 0]
    ELSE [min |-> SeqMin(Column(_select_step(objs, cycle, kept[Len(kept)],
                                             None, selected), "Voltage")),
          max |-> SeqMax(Column(_select_step(objs, cycle, kept[Len(kept)],
                                             None, selected), "Voltage"))]

\* ocv_steps = get_step_numbers(steptype = ocv_type, test_number =
\* test_number): the steps come from the step table of the dataset the
\* summary is built for.
OcvOf(objs, test, ocv_type, cycle, selected) ==
    OcvOfKept(objs,
              OcvStepsKept(objs, get_step_numbers(test, ocv_type, cycle),
                           cycle, selected),
              cycle, selected)

\* The four columns find_ocv inserts, in the order of the inserts.
OcvColumns == <<"ocv_first_min", "ocv_first_max",
                "ocv_second_min", "ocv_second_max">>

\* cycle_mode is 'anode': ocv_1 is ocvrlx_up, ocv_2 is ocvrlx_down.
OcvRow(row, first, second) ==
    ("ocv_first_min" :> first.min) @@ ("ocv_first_max" :> first.max) @@
    ("ocv_second_min" :> second.min) @@ ("ocv_second_max" :> second.max) @@
    row

\* The end of _make_summary with find_ocv: the columns sorted, the table
\* stored on the dataset, whose step table get_step_numbers had made.
StoreOcvSummary(objs, test, core, selected) ==
    [test EXCEPT
        !.dfsummary =
            Table(set_col_first(InsertAll(core.columns, OcvColumns),
                      <<"date_time_txt", "Test_Time", "Data_Point",
                        "Cycle_Index">>),
                  [j \in 1..Len(core.rows) |->
                      OcvRow(core.rows[j],
                             OcvOf(objs, test, "ocvrlx_up",
                                   core.rows[j].Cycle_Index, selected),
                             OcvOf(objs, test, "ocvrlx_down",
                                   core.rows[j].Cycle_Index, selected))]),
        !.dfsummary_made = TRUE]

\* objs with the dataset n replaced: what self.tests is once the step table
\* of dataset n was made.
WithTest(objs, n, test) == [objs EXCEPT ![n] = test]

OcvSummaryWithStepTable(objs, n, stepped, core, selected) ==
    IF stepped.exc # "none" THEN stepped
    ELSE [exc |-> "none",
          test |-> StoreOcvSummary(WithTest(objs, n, stepped.test),
                                   stepped.test, core, selected)]

OcvStepTableOnDemand(test, np) ==
    IF ~test.step_table_made THEN create_step_table(test, np)
    ELSE [exc |-> "none", test |-> test]

\* _make_summary(test_number = n, find_ocv = True), the other options at
\* their defaults, on the reader holding objs: the dataset n after the call
\* and the exception that escaped it.
_make_summary_find_ocv(objs, n, selected, np) ==
    OcvSummaryWithStepTable(objs, n, OcvStepTableOnDemand(objs[n], np),
        CoreSummary(objs[n],
            SummaryPoints(objs[n], [use_arbin_stat_file |-> TRUE]).val),
        selected)

\* ------------------------------------------------------------ _append, merge
HasColumn(df, col) == \E k \in 1..Len(df.columns) : df.columns[k] = col

\* Both summaries have a Cycle_Index column: this reader made them.
self_made_summary(t1, t2) ==
    HasColumn(t1.dfsummary, "Cycle_Index")
        /\ HasColumn(t2.dfsummary, "Cycle_Index")

\* A mutant: the rows of df2 put before those of df1.
ConcatSecondFirst(df1, df2) ==
    Table(df1.columns \o SelectSeq(df2.columns,
                                   LAMBDA c : ~HasColumn(df1, c)),
          df2.rows \o df1.rows)

\* pd.concat([df1, df2], ignore_index = True): the rows of df1, then those of
\* df2, under the columns of both.  A row keeps the cells it has; a column
\* it has no cell in reads as nan.
Concat(df1, df2) ==
    Table(df1.columns \o SelectSeq(df2.columns,
                                   LAMBDA c : ~HasColumn(df1, c)),
          df1.rows \o df2.rows)

\* max(series) of Python over a column that may hold nan: the first value if
\* it is nan (no later value compares greater), else the largest number.
PyMax(rows, col) ==
    IF col \notin DOMAIN rows[1] THEN [nan |-> TRUE, val |-> 0]
    ELSE [nan |-> FALSE,
          val |-> SeqMax(Column(SelectSeq(rows,
                             LAMBDA r : col \in DOMAIN r), col))]

\* series + k on a column of whole numbers: nan stays nan, and adding nan
\* leaves nan in every cell.
AddToColumn(rows, col, k) ==
    [i \in 1..Len(rows) |->
        IF col \notin DOMAIN rows[i] THEN rows[i]
        ELSE IF k.nan
        THEN [c \in (DOMAIN rows[i]) \ {col} |-> rows[i][c]]
        ELSE [rows[i] EXCEPT ![col] = @ + k.val]]

Number(k) == [nan |-> FALSE, val |-> k]

\* (xldate_as_datetime(start_time_2) - xldate_as_datetime(start_time_1))
\* .total_seconds()
diff_time(t1, t2) ==
    total_seconds(xldate_as_datetime(t2.start_datetime),
                  xldate_as_datetime(t1.start_datetime))

last_data_point(t1) == SeqMax(Column(t1.dfdata.rows, "Data_Point"))

last_cycle(t1) == SeqMax(Column(t1.dfdata.rows, "Cycle_Index"))

\* A mutant: the rows of t2 re-based by the number of rows and of cycles of
\* t2 itself.
RebaseBySelf(t1, t2) ==
    [t2 EXCEPT !.dfdata.rows =
        AddToColumn(AddToColumn(AddToColumn(@,
            "Data_Point", Number(last_data_point(t2))),
            "Cycle_Index", Number(last_cycle(t2))),
            "Test_Time", Number(diff_time(t1, t2)))]

\* A mutant: the rows of t2 re-based by the Data_Point and the Cycle_Index
\* of the first row of t1.
RebaseByFirstRow(t1, t2) ==
    [t2 EXCEPT !.dfdata.rows =
        AddToColumn(AddToColumn(AddToColumn(@,
            "Data_Point", Number(t1.dfdata.rows[1].Data_Point)),
            "Cycle_Index", Number(t1.dfdata.rows[1].Cycle_Index)),
            "Test_Time", Number(diff_time(t1, t2)))]

\* t2.dfdata[...] = t2.dfdata[...] + ...: t2 with its raw rows re-based.
RebaseRaw(t1, t2) ==
    [t2 EXCEPT !.dfdata.rows =
        AddToColumn(AddToColumn(AddToColumn(@,
            "Data_Point", Number(last_data_point(t1))),
            "Cycle_Index", Number(last_cycle(t1))),
            "Test_Time", Number(diff_time(t1, t2)))]

\* if merge_summary: t2 with the rows of its summary re-based, as a summary
\* this reader made (both have a Cycle_Index column) or as a statistics
\* table.  seconds is diff_time, taken before t2 was touched.
RebaseSummary(t1, t2, seconds) ==
    [t2 EXCEPT !.dfsummary.rows =
        IF self_made_summary(t1, t2)
        THEN AddToColumn(AddToColumn(@,
                 "Cycle_Index", PyMax(t1.dfsummary.rows, "Cycle_Index")),
                 "Test_Time", Number(seconds))
        ELSE AddToColumn(@, "Data_Point", Number(last_data_point(t1)))]

\* last_cycle as the step-table branch finds it: overwritten with the last
\* cycle of t1's summary when the summaries were merged as self-made ones.
last_cycle_for_steps(t1, t2) ==
    IF self_made_summary(t1, t2) /\ t1.dfsummary.rows # <<>>
    THEN PyMax(t1.dfsummary.rows, "Cycle_Index")
    ELSE Number(last_cycle(t1))

\* then the rest: no_cycles, dfdata, merged.
AppendRest(test, t2, dfdata2) ==
    [exc |-> "none",
     t1 |-> [test EXCEPT
                !.no_cycles = SeqMax(Column(dfdata2.rows, "Cycle_Index")),
                !.dfdata = dfdata2,
                !.merged = TRUE],
     t2 |-> t2]

\* t2.step_table['cycle'] = t2.dfdata['cycle'] + last_cycle, aligned on the
\* row index: a step-table row past the end of the raw table gets nan.
StepCyclesFromRaw(t2, k) ==
    [t2 EXCEPT !.step_table.rows =
        [i \in 1..Len(@) |->
            IF i > Len(t2.dfdata.rows) \/ k.nan
               \/ "cycle" \notin DOMAIN t2.dfdata.rows[i]
            THEN [c \in (DOMAIN @[i]) \ {"cycle"} |-> @[i][c]]
            ELSE [@[i] EXCEPT !.cycle = t2.dfdata.rows[i].cycle + k.val]]]

AppendStepTables(test, t2, dfdata2) ==
    AppendRest([test EXCEPT
                   !.step_table = Concat(test.step_table, t2.step_table)],
               t2, dfdata2)

\* if merge_step_table: the step tables are merged when both are made; the
\* raw table of t2 is asked for the step table's cycle column.
AppendSteps(test, t2, dfdata2, both_made, k) ==
    IF ~both_made THEN AppendRest(test, t2, dfdata2)
    ELSE IF ~HasColumn(t2.dfdata, "cycle")
    THEN [exc |-> "KeyError", t1 |-> test, t2 |-> t2]
    ELSE AppendStepTables(test, StepCyclesFromRaw(t2, k), dfdata2)

\* t1 and the re-based t2: the raw tables concatenated, the summaries
\* concatenated and stored on test (which is t1), then the step tables.
AppendRebased(t1, t2, k) ==
    AppendSteps([t1 EXCEPT !.dfsummary = Concat(t1.dfsummary, t2.dfsummary)],
                t2, Concat(t1.dfdata, t2.dfdata),
                t1.step_table_made /\ t2.step_table_made, k)

\* _append once diff_time is known.  max() of a self-made summary without
\* rows raises ValueError, the raw rows of t2 re-based by then.
AppendFromStarts(t1, t2) ==
    IF self_made_summary(t1, t2) /\ t1.dfsummary.rows = <<>>
    THEN [exc |-> "ValueError", t1 |-> t1, t2 |-> RebaseRaw(t1, t2)]
    ELSE AppendRebased(t1, RebaseSummary(t1, RebaseRaw(t1, t2),
                                         diff_time(t1, t2)),
                       last_cycle_for_steps(t1, t2))

\* A mutant: the start datetimes are read after the data points of t2 were
\* re-based.
AppendReadingStartsLate(t1, t2) ==
    IF t1.start_datetime = None \/ t2.start_datetime = None
    THEN [exc |-> "TypeError", t1 |-> t1,
          t2 |-> [t2 EXCEPT !.dfdata.rows =
                     AddToColumn(@, "Data_Point",
                                 Number(last_data_point(t1)))]]
    ELSE AppendFromStarts(t1, t2)

\* _append(t1, t2): the object t1 (which is the returned test) and the
\* object t2 after the call, and the exception that escaped it.
\* xldate_as_datetime adds a number to its argument: a start datetime of
\* None raises TypeError there, before anything is written.
_append(t1, t2) ==
    IF t1.start_datetime = None \/ t2.start_datetime = None
    THEN [exc |-> "TypeError", t1 |-> t1, t2 |-> t2]
    ELSE AppendFromStarts(t1, t2)

\* merge(tests = None): the datasets folded into the first from left to
\* right.  objs are the dataset objects of self.tests; the first is test.
RECURSIVE MergeFrom(_, _)
MergeAppended(objs, k, r) ==
    IF r.exc # "none"
    THEN [exc |-> r.exc, objs |-> [objs EXCEPT ![1] = r.t1, ![k] = r.t2]]
    ELSE MergeFrom(
            [objs EXCEPT
                ![1] = [r.t1 EXCEPT
                    !.raw_data_files = @ \o r.t2.raw_data_files,
                    !.raw_data_files_length =
                        @ \o r.t2.raw_data_files_length],
                ![k] = r.t2],
            k + 1)

MergeFrom(objs, k) ==
    IF k > Len(objs) THEN [exc |-> "none", objs |-> objs]
    ELSE MergeAppended(objs, k, _append(objs[1], objs[k]))

merge(objs) == MergeFrom(objs, 2)

\* ----------------------------------------------------------------- datasets
\* Datetimes are Excel serial dates in the code (days since 1899-12-30, a
\* float).  Here a serial date is a whole number of ticks of ten minutes,
\* TicksPerDay to the day; rows are logged one tick apart.
\* The rows the instrument logged, from what it was doing at each sample:
\* Data_Point counts from 1, Step_Time restarts whenever the step changes.
RECURSIVE StepTimeTicks(_, _)
StepTimeTicks(log, i) ==
    IF i = 1 \/ log[i - 1].cycle # log[i].cycle \/ log[i - 1].step # log[i].step
    THEN 0 ELSE 1 + StepTimeTicks(log, i - 1)

RawRows(log, start_datetime) ==
    [i \in 1..Len(log) |->
        [Data_Point |-> i,
         Test_Time |-> (i - 1) * SecondsPerTick,
         Step_Time |-> StepTimeTicks(log, i) * SecondsPerTick,
         DateTime |-> start_datetime + (i - 1),
         Step_Index |-> log[i].step,
         Cycle_Index |-> log[i].cycle,
         Current |-> log[i].sample.Current,
         Voltage |-> log[i].sample.Voltage,
         Charge_Capacity |-> log[i].sample.Charge_Capacity,
         Discharge_Capacity |-> log[i].sample.Discharge_Capacity,
         Internal_Resistance |-> log[i].sample.Internal_Resistance]]

\* Channel_Statistic_Table as the instrument writes it: one row for the last
\* data point of every cycle, sorted by Data_Point (dataset.makeDataFrame).
StatColumns == <<"Data_Point">>

StatRows(rows) ==
    LET last == SelectSeq(rows, LAMBDA r :
                   \A q \in 1..Len(rows) :
                       rows[q].Cycle_Index = r.Cycle_Index
                           => rows[q].Data_Point <= r.Data_Point)
    IN  [i \in 1..Len(last) |-> [Data_Point |-> last[i].Data_Point]]

\* dataset.__init__ followed by what loadres fills in.
Dataset(log, start_datetime, name) ==
    LET rows == RawRows(log, start_datetime)
    IN  [dfdata |-> Table(RawColumns, rows),
         dfsummary |-> Table(StatColumns, StatRows(rows)),
         dfsummary_made |-> FALSE,
         step_table |-> Table(<<>>, <<>>),
         step_table_made |-> FALSE,
         mass |-> 1,
         mass_given |-> FALSE,
         merged |-> FALSE,
         no_cycles |-> 0,
         start_datetime |-> start_datetime,
         raw_data_files |-> <<name>>,
         raw_data_files_length |-> <<Len(rows)>>]

\* What the cell was doing at a sample.
Sample(I, V, C, D, IR) ==
    [Current |-> I, Voltage |-> V, Charge_Capacity |-> C,
     Discharge_Capacity |-> D, Internal_Resistance |-> IR]

\* Samples of the step-table specification: at rest at two voltages, two
\* points of a discharge with a tapering current, two points of a charge.
StepSamples == {Sample(0, 100, 0, 0, 1), Sample(0, 110, 0, 0, 2),
                Sample(-2, 100, 0, 1, 1), Sample(-1, 100, 0, 2, 1),
                Sample(2, 110, 1, 0, 1), Sample(1, 110, 2, 0, 1)}

\* Samples of the classification scenarios: a discharge at a constant
\* current that starts at no discharge capacity, its voltage falling slowly
\* or fast, and a rest at three voltages.
ScenarioSamples == {Sample(-1, 100, 0, 0, 1), Sample(-1, 99, 0, 1, 1),
                    Sample(-1, 90, 0, 1, 1), Sample(0, 100, 0, 0, 1),
                    Sample(0, 110, 0, 0, 1), Sample(0, 90, 0, 0, 1)}

\* Two steps of one cycle, which may alternate.
ScenarioPairs == {<<1, 1>>, <<1, 2>>}

\* Logs of n samples taken in the given (cycle, step) pairs, the cycle index
\* never decreasing.
Logs(n, pairs, samples) ==
    LET Entries == {[cycle |-> p[1], step |-> p[2], sample |-> s] :
                        p \in pairs, s \in samples}
    IN  {log \in [1..n -> Entries] :
            \A i \in 1..(n - 1) : log[i].cycle <= log[i + 1].cycle}

\* Two steps of a first cycle, which may alternate, and one of a second.
StepPairsLogged == {<<1, 1>>, <<1, 2>>, <<2, 1>>}

\* What a whole cycle looked like: a discharge at constant current followed
\* by a charge at constant current, or a rest in which the voltage relaxes.
Logged(step, sample) == [step |-> step, sample |-> sample]

FullCycle == <<Logged(1, Sample(-1, 110, 0, 1, 1)),
               Logged(1, Sample(-1, 100, 0, 2, 1)),
               Logged(2, Sample(1, 100, 1, 2, 2)),
               Logged(2, Sample(1, 110, 2, 2, 2))>>

RestCycle == <<Logged(1, Sample(0, 100, 0, 0, 1)),
               Logged(1, Sample(0, 110, 0, 0, 1))>>

CycleProfiles == {FullCycle, RestCycle}

\* The log of the cycles of DOMAIN profile, in ascending order, cycle c
\* logged as profile[c] from cycle number c on.
RECURSIVE CycleLog(_, _)
CycleLog(profile, c) ==
    IF \A k \in DOMAIN profile : k < c THEN <<>>
    ELSE (IF c \in DOMAIN profile
          THEN [i \in 1..Len(profile[c]) |->
                   [cycle |-> c, step |-> profile[c][i].step,
                    sample |-> profile[c][i].sample]]
          ELSE <<>>) \o CycleLog(profile, c + 1)

\* Datasets of whole cycles numbered from 1 within 1..max, gaps allowed.
CycleDatasets(max, start_datetime, name) ==
    {Dataset(CycleLog(profile, 1), start_datetime, name) :
        profile \in UNION {[S -> CycleProfiles] :
                              S \in {T \in SUBSET (1..max) : 1 \in T}}}

\* Datasets of 1..max full cycles.
FullCycleDatasets(max, start_datetime, name) ==
    {Dataset(CycleLog([c \in 1..n |-> FullCycle], 1), start_datetime, name) :
        n \in 1..max}

\* A dataset loaded from a file that gave no start datetime.
WithoutStart(test) == [test EXCEPT !.start_datetime = None]

\* The options of make_summary, at their defaults.
DefaultOpts == [use_arbin_stat_file |-> TRUE, find_end_voltage |-> FALSE,
                find_ir |-> FALSE, ensure_step_table |-> FALSE]

\* The defaults with find_ocv = True.
OcvOpts == ("find_ocv" :> TRUE) @@ DefaultOpts

SummaryOpts == [use_arbin_stat_file : BOOLEAN, find_end_voltage : BOOLEAN,
                find_ir : BOOLEAN, ensure_step_table : BOOLEAN]

Call(op, test, other, opts) ==
    [op |-> op, test |-> test, other |-> other, opts |-> opts]

NoCall == Call("none", 0, 0, DefaultOpts)
NoPct == [called |-> FALSE, x0 |-> 0, x1 |-> 0, default_zero |-> TRUE,
          result |-> Ok(QInt(0))]

\* ------------------------------------------------------------------ actions
\* A direct call of _percentage_change(x0, x1, default_zero).
PercentageChange ==
    \E x0 \in -MaxVal..MaxVal, x1 \in -MaxVal..MaxVal, dz \in BOOLEAN :
        \E result \in {_percentage_change(QInt(x0), QInt(x1), dz, np_float)} :
            /\ pct' = [called |-> TRUE, x0 |-> x0, x1 |-> x1,
                       default_zero |-> dz, result |-> result]
            /\ exc' = result.exc
            /\ call' = Call("_percentage_change", 0, 0, DefaultOpts)
            /\ UNCHANGED <<tests, np_float, held, selected_test_number, batch>>

\* create_step_table(test_number = t).
CreateStepTable ==
    \E t \in 1..Len(tests) :
        \E result \in {create_step_table(tests[t], np_float)} :
            /\ tests' = [tests EXCEPT ![t] = result.test]
            /\ exc' = result.exc
            /\ call' = Call("create_step_table", t, 0, DefaultOpts)
            /\ UNCHANGED <<np_float, held, pct, selected_test_number, batch>>

\* make_summary(all_tests = False, test_number = t, ...options).
MakeSummaryWith(options) ==
    \E t \in 1..Len(tests), opts \in options :
        \E result \in {_make_summary(tests[t], opts, np_float)} :
            /\ tests' = [tests EXCEPT ![t] = result.test]
            /\ exc' = result.exc
            /\ call' = Call("make_summary", t, 0, opts)
            /\ UNCHANGED <<np_float, held, pct, selected_test_number, batch>>

MakeSummary == MakeSummaryWith(SummaryOpts)

\* make_summary(all_tests = False, test_number = t) with its defaults.
MakeDefaultSummary == MakeSummaryWith({DefaultOpts})

\* The largest Data_Point re-basing the datasets one after another can give.
DataPoints(objs) == SeqSum([k \in 1..Len(objs) |-> last_data_point(objs[k])])

\* _append(self.tests[i], self.tests[j]): both objects stay in self.tests,
\* the first of them is the one returned.
AppendTests ==
    \E i \in 1..Len(tests), j \in 1..Len(tests) :
        /\ i # j
        /\ DataPoints(<<tests[i], tests[j]>>) <= MaxDataPoint
        /\ \E r \in {_append(tests[i], tests[j])} :
              /\ tests' = [tests EXCEPT ![i] = r.t1, ![j] = r.t2]
              /\ exc' = r.exc
        /\ call' = Call("_append", i, j, DefaultOpts)
        /\ UNCHANGED <<np_float, held, pct, selected_test_number, batch>>

\* merge(): self.tests becomes the one merged dataset; an exception of
\* _append leaves the list as it was, its objects as far as they got.
Merge ==
    /\ Len(tests) >= 2
    /\ DataPoints(tests) <= MaxDataPoint
    /\ \E r \in {merge(tests)} :
          /\ tests' = IF r.exc = "none" THEN <<r.objs[1]>> ELSE r.objs
          /\ held' = IF r.exc = "none" THEN Tail(r.objs) ELSE held
          /\ exc' = r.exc
    /\ call' = Call("merge", 1, 2, DefaultOpts)
    /\ UNCHANGED <<np_float, pct, selected_test_number, batch>>

\* set_testnumber(n) with n one of the datasets held.
SetTestNumber ==
    \E n \in 1..Len(tests) :
        /\ selected_test_number' = n
        /\ exc' = "none"
        /\ call' = Call("set_testnumber", n, 0, DefaultOpts)
        /\ UNCHANGED <<tests, np_float, held, pct, batch>>

\* make_summary(all_tests = False, test_number = t, find_ocv = True).
MakeOcvSummary ==
    \E t \in 1..Len(tests) :
        \E result \in {_make_summary_find_ocv(tests, t,
                                              selected_test_number,
                                              np_float)} :
            /\ tests' = [tests EXCEPT ![t] = result.test]
            /\ exc' = result.exc
            /\ call' = Call("make_summary", t, 0, OcvOpts)
            /\ UNCHANGED <<np_float, held, pct, selected_test_number, batch>>

\* ----------------------------------------------------------- specifications
\* _percentage_change alone, on every pair of small whole numbers.
InitPct ==
    /\ tests = <<>>
    /\ np_float \in BOOLEAN
    /\ exc = "none"
    /\ call = NoCall
    /\ held = <<>>
    /\ pct = NoPct
    /\ selected_test_number = None
    /\ batch = <<>>

SpecPct == InitPct /\ [][PercentageChange]_vars

\* The step table of one dataset, over every short log of StepSamples.
InitSteps ==
    /\ \E n \in 1..MaxRows :
         \E log \in Logs(n, StepPairsLogged, StepSamples) :
            tests = <<Dataset(log, 0, "a.res")>>
    /\ np_float \in BOOLEAN
    /\ exc = "none"
    /\ call = NoCall
    /\ held = <<>>
    /\ pct = NoPct
    /\ selected_test_number = None
    /\ batch = <<>>

SpecSteps == InitSteps /\ [][CreateStepTable]_vars

\* The summary of one dataset of whole cycles, built and built again under
\* every choice of options, with or without the step table made first.
InitSummary ==
    /\ \E test \in CycleDatasets(MaxCycle, 0, "a.res") : tests = <<test>>
    /\ np_float \in BOOLEAN
    /\ exc = "none"
    /\ call = NoCall
    /\ held = <<>>
    /\ pct = NoPct
    /\ selected_test_number = None
    /\ batch = <<>>

NextSummary == CreateStepTable \/ MakeSummary

SpecSummary == InitSummary /\ [][NextSummary]_vars

\* Two datasets of full cycles, the first started in the last ten minutes
\* of a day and the second a few ticks later, or one of them without a start
\* datetime, with or without step tables and summaries of their own,
\* appended and merged.
InitMerge ==
    /\ \E a \in FullCycleDatasets(MaxMergeCycles, TicksPerDay - 1, "a.res") :
         \E gap \in 1..MaxStartGap :
            \E b \in FullCycleDatasets(MaxMergeCycles,
                                       TicksPerDay - 1 + gap, "b.res") :
                tests \in {<<a, b>>, <<WithoutStart(a), b>>,
                           <<a, WithoutStart(b)>>}
    /\ np_float \in BOOLEAN
    /\ exc = "none"
    /\ call = NoCall
    /\ held = <<>>
    /\ pct = NoPct
    /\ selected_test_number = None
    /\ batch = <<>>

NextMerge == CreateStepTable \/ MakeDefaultSummary \/ AppendTests \/ Merge

SpecMerge == InitMerge /\ [][NextMerge]_vars

\* The step table of one dataset, over every short log of ScenarioSamples.
InitScenario ==
    /\ \E n \in 1..MaxRows :
         \E log \in Logs(n, ScenarioPairs, ScenarioSamples) :
            tests = <<Dataset(log, 0, "a.res")>>
    /\ np_float \in BOOLEAN
    /\ exc = "none"
    /\ call = NoCall
    /\ held = <<>>
    /\ pct = NoPct
    /\ selected_test_number = None
    /\ batch = <<>>

SpecScenario == InitScenario /\ [][CreateStepTable]_vars

\* A dataset loaded from a file whose Channel_Normal_Table has no rows: its
\* step table and its summary built under every choice of options.
InitZero ==
    /\ tests = <<Dataset(<<>>, 0, "a.res")>>
    /\ np_float \in BOOLEAN
    /\ exc = "none"
    /\ call = NoCall
    /\ held = <<>>
    /\ pct = NoPct
    /\ selected_test_number = None
    /\ batch = <<>>

SpecZero == InitZero /\ [][NextSummary]_vars

\* A reader holding two datasets of whole cycles, rests among them, whose
\* summaries are built with find_ocv, with or without a test number
\* selected before.
InitOcv ==
    /\ \E a \in CycleDatasets(MaxMergeCycles, 0, "a.res") :
         \E b \in CycleDatasets(MaxMergeCycles, 0, "b.res") :
            tests = <<a, b>>
    /\ np_float \in BOOLEAN
    /\ exc = "none"
    /\ call = NoCall
    /\ held = <<>>
    /\ pct = NoPct
    /\ selected_test_number = None
    /\ batch = <<>>

NextOcv == SetTestNumber \/ MakeOcvSummary

SpecOcv == InitOcv /\ [][NextOcv]_vars

\* Three datasets merged in the two groupings: the files are loaded twice,
\* tests[1..3] and tests[4..6]; the first load is merged as merge() does it,
\* a with b and the result with c, the second c into b and the result into
\* a.
Groupings == <<<<1, 2>>, <<1, 3>>, <<5, 6>>, <<4, 5>>>>

\* How many _append calls of Groupings were made.
Grouped ==
    IF call.op = "_append"
    THEN CHOOSE k \in DOMAIN Groupings :
             Groupings[k] = <<call.test, call.other>>
    ELSE 0

\* make_summary(all_tests = False, test_number = t) on a dataset of the
\* first load, before the merging starts.
SummariseLoaded ==
    /\ call.op # "_append"
    /\ \E t \in 1..3 :
          \E result \in {_make_summary(tests[t], DefaultOpts, np_float)} :
              /\ tests' = [tests EXCEPT ![t] = result.test]
              /\ exc' = result.exc
              /\ call' = Call("make_summary", t, 0, DefaultOpts)
    /\ UNCHANGED <<np_float, held, pct, selected_test_number, batch>>

\* The next _append of Groupings; an exception ends the run.
AppendGrouped ==
    /\ Grouped < Len(Groupings)
    /\ Grouped > 0 => exc = "none"
    /\ \E p \in {Groupings[Grouped + 1]} :
          /\ \E r \in {_append(tests[p[1]], tests[p[2]])} :
                /\ tests' = [tests EXCEPT ![p[1]] = r.t1, ![p[2]] = r.t2]
                /\ exc' = r.exc
          /\ call' = Call("_append", p[1], p[2], DefaultOpts)
    /\ UNCHANGED <<np_float, held, pct, selected_test_number, batch>>

InitGrouped ==
    /\ \E a \in FullCycleDatasets(MaxMergeCycles, TicksPerDay - 1, "a.res") :
         \E gap \in 1..MaxStartGap, later \in 1..MaxStartGap :
            \E b \in FullCycleDatasets(MaxMergeCycles,
                                       TicksPerDay - 1 + gap, "b.res") :
               \E c \in FullCycleDatasets(MaxMergeCycles,
                                          TicksPerDay - 1 + gap + later,
                                          "c.res") :
                  tests = <<a, b, c, a, b, c>>
    /\ np_float \in BOOLEAN
    /\ exc = "none"
    /\ call = NoCall
    /\ held = <<>>
    /\ pct = NoPct
    /\ selected_test_number = None
    /\ batch = <<>>

NextGrouped == SummariseLoaded \/ AppendGrouped

SpecGrouped == InitGrouped /\ [][NextGrouped]_vars

\* ------------------------------------------------------------ yank_outliers
\* A summary of utils.helpers is a frame indexed by the cycle index: here the
\* sequence of its rows [cycle, charge, discharge], the two capacity columns
\* the filters read by default, as positive integers.  A distance is given in
\* tenths and a cut in hundredths, so that every comparison is one of
\* integers.

\* None of Python where a list is expected.
NoList == <<None>>

\* s.index.
Index(s) == {s[i].cycle : i \in 1..Len(s)}

\* remove_outliers_from_summary_on_index: the rows whose index is listed go,
\* and the last row with remove_last; selection[-1] of an empty selection is
\* an IndexError.
remove_outliers_from_summary_on_index(s, indexes, remove_last) ==
    IF remove_last /\ s = <<>> THEN Raise("IndexError")
    ELSE Ok(SelectSeq(s, LAMBDA r :
                /\ r.cycle \notin Range(indexes)
                /\ ~(remove_last /\ r.cycle = s[Len(s)].cycle)))

\* _remove_outliers_from_summary(s, filter_vals, freeze_indexes), the filter
\* given by its index and the labels it keeps.  filter_vals[freeze_indexes] =
\* True is a label lookup on the integer index of the filter: a label that
\* is missing raises a KeyError, which the except IndexError clause does not
\* catch.  s[filter_vals] then keeps the rows of s whose label the filter
\* keeps.
_remove_outliers_from_summary(s, kept, index, freeze_indexes) ==
    IF freeze_indexes = NoList
    THEN Ok(SelectSeq(s, LAMBDA r : r.cycle \in kept))
    ELSE IF ~(Range(freeze_indexes) \subseteq index) THEN Raise("KeyError")
    ELSE Ok(SelectSeq(s, LAMBDA r :
                r.cycle \in kept \union Range(freeze_indexes)))

\* The labels remove_outliers_from_summary_on_value keeps: both capacities
\* above low and below high.
ValueKept(s, low, high) ==
    {s[i].cycle : i \in {j \in 1..Len(s) :
        /\ s[j].charge > low /\ s[j].charge < high
        /\ s[j].discharge > low /\ s[j].discharge < high}}

remove_outliers_from_summary_on_value(s, low, high, freeze_indexes) ==
    _remove_outliers_from_summary(s, ValueKept(s, low, high), Index(s),
                                  freeze_indexes)

\* rolling(3, center=True, min_periods=1): the rows around position i.
Window(s, i) ==
    SubSeq(s, IF i = 1 THEN 1 ELSE i - 1, IF i = Len(s) THEN i ELSE i + 1)

MinOf(a, b) == IF a < b THEN a ELSE b

\* neighbour_window(y) < distance for one column: 0.5 for a window of one
\* row, abs(diff) / mean for two rows, else the smaller distance from the
\* middle row to a neighbour over min(y[0], mean(y[1:])).
NeighbourWithin(y, col, distance) ==
    IF Len(y) = 1 THEN 5 < distance
    ELSE IF Len(y) = 2
    THEN 20 * Abs(y[2][col] - y[1][col]) < distance * (y[1][col] + y[2][col])
    ELSE 20 * MinOf(Abs(y[2][col] - y[1][col]), Abs(y[2][col] - y[3][col]))
             < distance * MinOf(2 * y[1][col], y[2][col] + y[3][col])

\* The labels remove_outliers_from_summary_on_nn_distance keeps.
DistanceKept(s, distance) ==
    {s[i].cycle : i \in {j \in 1..Len(s) :
        /\ NeighbourWithin(Window(s, j), "charge", distance)
        /\ NeighbourWithin(Window(s, j), "discharge", distance)}}

remove_outliers_from_summary_on_nn_distance(s, distance, freeze_indexes) ==
    _remove_outliers_from_summary(s, DistanceKept(s, distance), Index(s),
                                  freeze_indexes)

RECURSIVE SumOf(_, _)
SumOf(y, col) == IF y = <<>> THEN 0 ELSE y[1][col] + SumOf(Tail(y), col)

RECURSIVE SumOfSquares(_, _)
SumOfSquares(y, col) ==
    IF y = <<>> THEN 0 ELSE y[1][col] * y[1][col] + SumOfSquares(Tail(y), col)

\* fractional_std(x) < cut: np.std(x) / np.mean(x) below cut, squared and
\* cleared of its denominators.
FractionalStdWithin(y, col, cut) ==
    10000 * (Len(y) * SumOfSquares(y, col) - SumOf(y, col) * SumOf(y, col))
        < cut * cut * SumOf(y, col) * SumOf(y, col)

\* The labels the filter of remove_outliers_from_summary_on_window keeps.
WindowKept(s, cut) ==
    {s[i].cycle : i \in {j \in 1..Len(s) :
        FractionalStdWithin(Window(s, j), "charge", cut)}}

\* remove_outliers_from_summary_on_window with window_size = 3 and one
\* iteration: the loop has taken the filtered rows out of s before
\* _remove_outliers_from_summary is given s and the filter.
remove_outliers_from_summary_on_window(s, cut, freeze_indexes) ==
    _remove_outliers_from_summary(
        SelectSeq(s, LAMBDA r : r.cycle \in WindowKept(s, cut)),
        WindowKept(s, cut), Index(s), freeze_indexes)

\* The steps of yank_outliers on one cell, each given the outcome of the one
\* before it.
YankOnIndex(s, p) ==
    IF p.remove_indexes = NoList THEN Ok(s)
    ELSE remove_outliers_from_summary_on_index(s, p.remove_indexes,
                                               p.remove_last)

YankOnValue(r, p) ==
    IF r.exc # "none" THEN r
    ELSE remove_outliers_from_summary_on_value(r.val, p.low, p.high,
                                               p.freeze_indexes)

YankOnDistance(r, p) ==
    IF r.exc # "none" \/ p.distance = None THEN r
    ELSE remove_outliers_from_summary_on_nn_distance(r.val, p.distance,
                                                     p.freeze_indexes)

\* The window step and c.data.summary = s: the summary the cell holds when
\* the loop body ends or an exception leaves it.  The summary is also
\* assigned right after the distance step.
YankOnWindow(s, r, w, p) ==
    IF r.exc # "none" THEN [exc |-> r.exc, summary |-> s]
    ELSE IF p.window_size = None THEN [exc |-> "none", summary |-> r.val]
    ELSE IF w.exc # "none"
    THEN [exc |-> w.exc,
          summary |-> IF p.distance = None THEN s ELSE r.val]
    ELSE [exc |-> "none", summary |-> w.val]

YankCellFrom(s, r, p) ==
    YankOnWindow(s, r,
        IF r.exc # "none" THEN r
        ELSE remove_outliers_from_summary_on_window(r.val, p.window_cut,
                                                    p.freeze_indexes),
        p)

YankCell(s, p) ==
    YankCellFrom(s, YankOnDistance(YankOnValue(YankOnIndex(s, p), p), p), p)

\* yank_outliers(b, low, high, freeze_indexes, remove_indexes, remove_last,
\* distance, window_size, window_cut) without the z-score filter and with
\* keep_old off: the loop over the cells, left by the first exception.
RECURSIVE YankCells(_, _, _)
YankedCell(cells, k, one, p) ==
    IF one.exc # "none"
    THEN [exc |-> one.exc, cells |-> [cells EXCEPT ![k] = one.summary]]
    ELSE YankCells([cells EXCEPT ![k] = one.summary], k + 1, p)

YankCells(cells, k, p) ==
    IF k > Len(cells) THEN [exc |-> "none", cells |-> cells]
    ELSE YankedCell(cells, k, YankCell(cells[k], p), p)

yank_outliers(b, p) == YankCells(b, 1, p)

\* The summaries of n cycles, numbered from 1, over the capacity pairs.
CapacityPairs == {<<10, 10>>, <<9, 10>>, <<1, 1>>}

SummaryRow(c, pair) == [cycle |-> c, charge |-> pair[1], discharge |-> pair[2]]

CellSummaries(n) ==
    {[c \in 1..n |-> SummaryRow(c, f[c])] : f \in [1..n -> CapacityPairs]}

\* The arguments of a call: freeze_indexes of one cycle or None,
\* remove_indexes None, empty or the first cycle, the low limit at its
\* default or between the capacities, distance and window_size None or given.
YankArguments ==
    [freeze_indexes : {NoList} \union {<<c>> : c \in 1..MaxYankCycles},
     remove_indexes : {NoList, <<>>, <<1>>},
     remove_last : BOOLEAN,
     low : {0, 5},
     high : {7000},
     distance : {None, 7},
     window_size : {None, 3},
     window_cut : {10}]

\* A call of yank_outliers on the batch; of its arguments the call keeps the
\* lists of cycles and the window size.
YankOutliers ==
    \E p \in YankArguments :
        \E result \in {yank_outliers(batch, p)} :
            /\ batch' = result.cells
            /\ exc' = result.exc
            /\ call' = Call("yank_outliers", 0, 0,
                            [freeze_indexes |-> p.freeze_indexes,
                             remove_indexes |-> p.remove_indexes,
                             window_size |-> p.window_size])
            /\ UNCHANGED <<tests, np_float, held, pct, selected_test_number>>

\* A batch of two cells: one of up to MaxYankCycles cycles with any
\* capacities, one of a single cycle or of MaxYankCycles even cycles.
InitYank ==
    /\ \E n \in 1..MaxYankCycles :
           \E first \in CellSummaries(n) :
               \E second \in {[c \in 1..m |-> SummaryRow(c, <<10, 10>>)] :
                                 m \in {1, MaxYankCycles}} :
                   batch = <<first, second>>
    /\ tests = <<>>
    /\ np_float = TRUE
    /\ exc = "none"
    /\ call = NoCall
    /\ held = <<>>
    /\ pct = NoPct
    /\ selected_test_number = None

SpecYank == InitYank /\ [][YankOutliers]_vars

\* ----------------------------------------------------------------- loadcell
\* _empty_test(): the None that loadres appends for a set of files it could
\* not read.
EmptyTest == [empty |-> TRUE]

_is_not_empty_test(test) == test # EmptyTest

\* _validate_tests(): the status of every dataset the reader holds.
_validate_tests(objs) == [k \in 1..Len(objs) |-> _is_not_empty_test(objs[k])]

\* The cells loadcell is asked for, by what it finds for each: res-files that
\* can be read, res-files that cannot, or an hdf5-file that matches.
FoundCells == {[source |-> "res", loads |-> TRUE],
               [source |-> "res", loads |-> FALSE],
               [source |-> "h5", loads |-> TRUE]}

\* What loadres appends for a cell: the dataset _loadres reads, one full
\* cycle; the dataset _loadh5 reads, with mass_given set; or the empty test.
LoadedTest(cell) ==
    IF cell.source = "h5"
    THEN [Dataset(CycleLog(<<FullCycle>>, 1), 0, "cell.h5")
             EXCEPT !.mass_given = TRUE]
    ELSE IF cell.loads THEN Dataset(CycleLog(<<FullCycle>>, 1), 0, "cell.res")
    ELSE EmptyTest

\* loadres(list_of_files): one dataset appended to self.tests per cell.
loadres(objs, cells) == objs \o [i \in 1..Len(cells) |-> LoadedTest(cells[i])]

\* res_test_numbers: the numbers of the cells read from res-files, counted
\* within the call.
res_test_numbers(cells) ==
    SelectSeq([i \in 1..Len(cells) |-> i], LAMBDA i : cells[i].source = "res")

\* res_masses: masses[counter] of those cells.
res_masses(cells, masses) ==
    [k \in 1..Len(res_test_numbers(cells)) |->
        masses[res_test_numbers(cells)[k]]]

\* set_mass(masses, test_numbers, validated): zip(test_numbers, masses,
\* validated), the mass set on self.tests[t] when v is true; on the empty test
\* the AttributeError is caught.
RECURSIVE set_mass(_, _, _, _, _)
set_mass(objs, masses, test_numbers, validated, k) ==
    IF k > Len(test_numbers) \/ k > Len(masses) \/ k > Len(validated)
    THEN objs
    ELSE set_mass(
            IF validated[k] /\ _is_not_empty_test(objs[test_numbers[k]])
            THEN [objs EXCEPT ![test_numbers[k]].mass = masses[k],
                              ![test_numbers[k]].mass_given = TRUE]
            ELSE objs,
            masses, test_numbers, validated, k + 1)

\* The options loadcell makes its summaries with: summary_ir and
\* summary_end_v at their defaults.
LoadcellOpts == [use_arbin_stat_file |-> TRUE, find_end_voltage |-> TRUE,
                 find_ir |-> TRUE, ensure_step_table |-> FALSE]

\* for t, v in zip(res_test_numbers, not_empty): if v: make_summary(
\* all_tests=False, test_number=t), which returns at once on the empty test.
\* An exception ends the loop and the call.
RECURSIVE SummariesFrom(_, _, _, _, _)
SummaryStored(objs, test_numbers, validated, k, result, np) ==
    IF result.exc # "none"
    THEN [exc |-> result.exc,
          tests |-> [objs EXCEPT ![test_numbers[k]] = result.test]]
    ELSE SummariesFrom([objs EXCEPT ![test_numbers[k]] = result.test],
                       test_numbers, validated, k + 1, np)

SummariesFrom(objs, test_numbers, validated, k, np) ==
    IF k > Len(test_numbers) \/ k > Len(validated)
    THEN [exc |-> "none", tests |-> objs]
    ELSE IF validated[k] /\ _is_not_empty_test(objs[test_numbers[k]])
    THEN SummaryStored(objs, test_numbers, validated, k,
             _make_summary(objs[test_numbers[k]], LoadcellOpts, np), np)
    ELSE SummariesFrom(objs, test_numbers, validated, k + 1, np)

\* The end of loadcell, after loadres: not_empty = self.tests_status, then
\* with a cell read from res-files set_mass and the summaries.
LoadcellSummaries(loaded, cells, masses, np) ==
    IF res_test_numbers(cells) = <<>> THEN [exc |-> "none", tests |-> loaded]
    ELSE SummariesFrom(
            set_mass(loaded, res_masses(cells, masses),
                     res_test_numbers(cells), _validate_tests(loaded), 1),
            res_test_numbers(cells), _validate_tests(loaded), 1, np)

\* loadcell(names, masses) with summary_on_res on and a mass for every name.
loadcell(objs, cells, masses, np) ==
    LoadcellSummaries(loadres(objs, cells), cells, masses, np)

\* A call of loadcell for up to as many cells as the reader may still hold,
\* the cell at position i given the mass i + 1.
LoadCell ==
    \E n \in 1..(MaxLoaded - Len(tests)) :
        \E cells \in [1..n -> FoundCells] :
            \E result \in {loadcell(tests, cells, [i \in 1..n |-> i + 1],
                                    np_float)} :
                /\ tests' = result.tests
                /\ exc' = result.exc
                /\ call' = Call("loadcell", 0, 0,
                                [cells |-> cells,
                                 masses |-> [i \in 1..n |-> i + 1]])
                /\ UNCHANGED <<np_float, held, pct, selected_test_number,
                               batch>>

\* A reader that has loaded nothing yet.
InitLoad ==
    /\ tests = <<>>
    /\ np_float \in BOOLEAN
    /\ exc = "none"
    /\ call = NoCall
    /\ held = <<>>
    /\ pct = NoPct
    /\ selected_test_number = None
    /\ batch = <<>>

SpecLoad == InitLoad /\ [][LoadCell]_vars

\* ------------------------------------------------------------------- claims
RawPairs(test) ==
    {<<r.Cycle_Index, r.Step_Index>> : r \in Range(test.dfdata.rows)}

TablePairs(test) ==
    {<<r.cycle, r.step>> : r \in Range(test.step_table.rows)}

\* The raw rows of the step a step-table row was built from.
RowsOfStep(test, r) ==
    SelectSeq(test.dfdata.rows, LAMBDA x : /\ x.Cycle_Index = r.cycle
                                           /\ x.Step_Index = r.step)

\* C1: after create_step_table the (cycle, step) pairs of the step table are
\* exactly the distinct (Cycle_Index, Step_Index) pairs of the raw table, and
\* the step table has one row per pair.
C1_StepTablePairs ==
    \A t \in 1..Len(tests) :
        tests[t].step_table_made =>
            /\ TablePairs(tests[t]) = RawPairs(tests[t])
            /\ Len(tests[t].step_table.rows) = Cardinality(RawPairs(tests[t]))

\* C1 witness: a step table with several rows was built from a raw table in
\* which a step comes back after another step was logged.
C1_Witness ==
    \E t \in 1..Len(tests) :
        /\ tests[t].step_table_made
        /\ Len(tests[t].step_table.rows) >= 2
        /\ \E i, j, k \in 1..Len(tests[t].dfdata.rows) :
              LET rows == tests[t].dfdata.rows
              IN  /\ i < j /\ j < k
                  /\ rows[i].Cycle_Index = rows[k].Cycle_Index
                  /\ rows[i].Step_Index = rows[k].Step_Index
                  /\ rows[j].Step_Index # rows[i].Step_Index

MatchingRules(r) == {k \in 1..Len(Rules) : Matches(r, Rules[k])}

SetMax(S) == CHOOSE x \in S : \A y \in S : y <= x
SetMin(S) == CHOOSE x \in S : \A y \in S : x <= y

\* C2 as stated: every row that matches a rule has the type of the first rule
\* it matches.
C2_FirstMatchWins ==
    \A t \in 1..Len(tests) :
        tests[t].step_table_made =>
            \A r \in Range(tests[t].step_table.rows) :
                MatchingRules(r) # {} =>
                    r.type = Rules[SetMin(MatchingRules(r))]

\* C2 amended: every row that matches a rule has the type of the last rule it
\* matches in the order ocvrlx_up, ocvrlx_down, discharge, charge,
\* cv_discharge, cv_charge, ir.
C2_LastMatchWins ==
    \A t \in 1..Len(tests) :
        tests[t].step_table_made =>
            \A r \in Range(tests[t].step_table.rows) :
                MatchingRules(r) # {} =>
                    r.type = Rules[SetMax(MatchingRules(r))]

\* C2 witness: a row that matches the discharge rule and, later in the
\* order, the cv_discharge rule has been typed.
C2_Witness ==
    \E t \in 1..Len(tests) :
        /\ tests[t].step_table_made
        /\ \E r \in Range(tests[t].step_table.rows) :
              Matches(r, "discharge") /\ Matches(r, "cv_discharge")

\* C3: every row of a built step table has a type of list_of_step_types, and
\* a row that matches no rule has type not_known and a blank info.
C3_TypeInTaxonomy ==
    \A t \in 1..Len(tests) :
        tests[t].step_table_made =>
            \A r \in Range(tests[t].step_table.rows) :
                /\ r.type \in list_of_step_types
                /\ MatchingRules(r) = {} =>
                       r.type = "not_known" /\ r.info = NaNText

\* C4: _percentage_change(x0, x1) with x0 # 0 returns (x1 - x0) * 100 / x0.
C4_PercentageOfNonZero ==
    (pct.called /\ pct.x0 # 0) =>
        pct.result = Ok(Q((pct.x1 - pct.x0) * 100, pct.x0))

\* C5: _percentage_change(0, x1) never divides by x0: it returns 0 when
\* x1 = 0 or default_zero is set, and x1 - x0 otherwise.
C5_ZeroGuard ==
    (pct.called /\ pct.x0 = 0) =>
        /\ pct.result.exc = "none"
        /\ pct.result.val =
              IF pct.x1 = 0 \/ pct.default_zero THEN QInt(0)
              ELSE QInt(pct.x1 - pct.x0)

Rates(r) == {r.I_rate, r.V_rate, r.Charge_rate, r.Discharge_rate}

SingleSample(rows) == rows[1].Step_Time = rows[Len(rows)].Step_Time

\* C6: building the row of a step whose first and last Step_Time are equal
\* divides nothing by zero: no ZeroDivisionError escapes create_step_table on
\* a raw table of such steps, and the rates of such a row are finite numbers.
C6_SingleSampleNoDivision ==
    \A t \in 1..Len(tests) :
        /\ ( /\ call.op = "create_step_table" /\ call.test = t
             /\ \A p \in RawPairs(tests[t]) :
                    SingleSample(RowsOfStep(tests[t],
                                            [cycle |-> p[1], step |-> p[2]])) )
           => exc = "none"
        /\ tests[t].step_table_made =>
              \A r \in Range(tests[t].step_table.rows) :
                  SingleSample(RowsOfStep(tests[t], r)) =>
                      \A x \in Rates(r) : IsFinite(x)

\* The members of a set of whole numbers in ascending order.
RECURSIVE Ascending(_)
Ascending(S) ==
    IF S = {} THEN <<>> ELSE <<SetMin(S)>> \o Ascending(S \ {SetMin(S)})

RawCycles(test) == {r.Cycle_Index : r \in Range(test.dfdata.rows)}

\* C7: a call of make_summary completes without an exception, and the summary
\* it stores has exactly one row per distinct Cycle_Index of the raw table,
\* in ascending order, whether or not the cycle numbers have gaps and however
\* the rows are selected.
C7_OneRowPerCycle ==
    \A t \in 1..Len(tests) :
        (call.op = "make_summary" /\ call.test = t) =>
            /\ exc = "none"
            /\ tests[t].dfsummary_made
            /\ Column(tests[t].dfsummary.rows, "Cycle_Index") =
                   Ascending(RawCycles(tests[t]))

\* C8: when make_summary is called on a dataset with the options of the call
\* just before it on the same dataset, and neither call raises, the summary
\* table stored by the second call equals the one stored by the first.
C8_SummaryIdempotent ==
    [][(/\ call.op = "make_summary" /\ call'.op = "make_summary"
        /\ call'.test = call.test /\ call'.opts = call.opts
        /\ exc = "none" /\ exc' = "none")
       => tests'[call.test].dfsummary = tests[call.test].dfsummary]_vars

\* The raw rows of b as the claim has them after _append(a, b).
Rebased(a, b) ==
    [k \in 1..Len(b.dfdata.rows) |->
        [b.dfdata.rows[k] EXCEPT
            !.Data_Point = @ + SetMax({r.Data_Point :
                                          r \in Range(a.dfdata.rows)}),
            !.Cycle_Index = @ + SetMax(RawCycles(a)),
            !.Test_Time = @ + (b.start_datetime - a.start_datetime)
                                  * SecondsPerTick]]

\* Both datasets have a start datetime.
Started(a, b) == a.start_datetime # None /\ b.start_datetime # None

\* C9: _append(a, b) of two datasets that have start datetimes re-bases
\* every raw row of b (Data_Point by the largest Data_Point of a, Cycle_Index
\* by the largest Cycle_Index of a, Test_Time by the seconds from a's start
\* to b's) and, unless it raises, leaves on the returned dataset the raw
\* rows of a followed by those re-based rows; so does merge() of two
\* datasets.
C9_AppendRebases ==
    [][/\ ( /\ call'.op = "_append"
            /\ Started(tests[call'.test], tests[call'.other]) ) =>
            /\ tests'[call'.other].dfdata.rows =
                   Rebased(tests[call'.test], tests[call'.other])
            /\ exc' = "none" =>
                   tests'[call'.test].dfdata.rows =
                       tests[call'.test].dfdata.rows \o
                           Rebased(tests[call'.test], tests[call'.other])
       /\ (call'.op = "merge" /\ exc' = "none") =>
            tests'[1].dfdata.rows =
                tests[1].dfdata.rows \o Rebased(tests[1], tests[2])]_vars

\* C9 witness: a dataset of one cycle was appended to one of two cycles that
\* started earlier: its first row is now data point 9 of cycle 3, later in
\* test time.
C9_Witness ==
    /\ call.op = "_append" /\ exc = "none"
    /\ tests[call.test].merged
    /\ \E r \in Range(tests[call.test].dfdata.rows) :
          /\ r.Data_Point = 9 /\ r.Cycle_Index = 3 /\ r.Step_Time = 0
          /\ r.Test_Time >= SecondsPerTick

\* C10: _append and merge leave both datasets they are given as they were:
\* tables, flags and all.
C10_InputsUnchanged ==
    [][/\ call'.op = "_append" =>
            /\ tests'[call'.test] = tests[call'.test]
            /\ tests'[call'.other] = tests[call'.other]
       /\ (call'.op = "merge" /\ exc' = "none") =>
            /\ tests'[1] = tests[1]
            /\ held'[1] = tests[2]]_vars

\* The step-table rows of b as the claim has them after a merge with a.
RebasedSteps(a, b) ==
    [k \in 1..Len(b.step_table.rows) |->
        [b.step_table.rows[k] EXCEPT !.cycle = @ + SetMax(RawCycles(a))]]

\* C11: when both datasets given to _append or merge have a start datetime
\* and a step table, the call raises nothing and leaves on the returned dataset the step-table
\* rows of a followed by those of b, each with its own step and its cycle
\* increased by the largest Cycle_Index of a's raw table.
C11_MergedStepTable ==
    [][/\ ( /\ call'.op = "_append"
            /\ Started(tests[call'.test], tests[call'.other])
            /\ tests[call'.test].step_table_made
            /\ tests[call'.other].step_table_made )
          => /\ exc' = "none"
             /\ tests'[call'.test].step_table.rows =
                    tests[call'.test].step_table.rows \o
                        RebasedSteps(tests[call'.test], tests[call'.other])
       /\ ( /\ call'.op = "merge"
            /\ Started(tests[1], tests[2])
            /\ tests[1].step_table_made /\ tests[2].step_table_made )
          => /\ exc' = "none"
             /\ tests'[1].step_table.rows =
                    tests[1].step_table.rows \o
                        RebasedSteps(tests[1], tests[2])]_vars

\* C12: when one of the datasets given to _append or merge has no step
\* table, the returned dataset does not have its step_table_made flag set.
C12_NoStaleStepTable ==
    [][/\ ( /\ call'.op = "_append" /\ exc' = "none"
            /\ ~( /\ tests[call'.test].step_table_made
                  /\ tests[call'.other].step_table_made ) )
          => ~tests'[call'.test].step_table_made
       /\ ( /\ call'.op = "merge" /\ exc' = "none"
            /\ ~(tests[1].step_table_made /\ tests[2].step_table_made) )
          => ~tests'[1].step_table_made]_vars

\* rows with k added to the cells of column col, an empty cell left empty.
Shifted(rows, col, k) ==
    [i \in 1..Len(rows) |->
        IF col \in DOMAIN rows[i] THEN [rows[i] EXCEPT ![col] = @ + k]
        ELSE rows[i]]

\* The summary rows of b as the claim has them after a merge with a.
RebasedSummaryRows(a, b) ==
    IF HasColumn(a.dfsummary, "Cycle_Index")
       /\ HasColumn(b.dfsummary, "Cycle_Index")
    THEN Shifted(Shifted(b.dfsummary.rows,
                         "Cycle_Index", SetMax(RawCycles(a))),
                 "Test_Time",
                 (b.start_datetime - a.start_datetime) * SecondsPerTick)
    ELSE Shifted(b.dfsummary.rows, "Data_Point",
                 SetMax({r.Data_Point : r \in Range(a.dfdata.rows)}))

\* C13: _append and merge leave on the returned dataset the summary rows of
\* a followed by those of b re-based: when both summaries have a Cycle_Index
\* column, Cycle_Index by the largest Cycle_Index of a's raw table and
\* Test_Time by the seconds from a's start to b's; otherwise Data_Point by
\* the largest Data_Point of a's raw table.
C13_MergedSummary ==
    [][/\ (call'.op = "_append" /\ exc' = "none") =>
            tests'[call'.test].dfsummary.rows =
                tests[call'.test].dfsummary.rows \o
                    RebasedSummaryRows(tests[call'.test], tests[call'.other])
       /\ (call'.op = "merge" /\ exc' = "none") =>
            tests'[1].dfsummary.rows =
                tests[1].dfsummary.rows \o
                    RebasedSummaryRows(tests[1], tests[2])]_vars

\* C17: _append or merge of two datasets one of which has no start datetime
\* raises an exception and changes nothing: the datasets of the reader, and
\* those folded away earlier, are as they were.
C17_NoStartDatetime ==
    [][/\ ( /\ call'.op = "_append"
            /\ \/ tests[call'.test].start_datetime = None
               \/ tests[call'.other].start_datetime = None )
          => exc' # "none" /\ tests' = tests
       /\ ( /\ call'.op = "merge"
            /\ \/ tests[1].start_datetime = None
               \/ tests[2].start_datetime = None )
          => exc' # "none" /\ tests' = tests /\ held' = held]_vars

\* C17 witness: merge was called with a second dataset that has no start
\* datetime and a TypeError escaped it.
C17_Witness ==
    /\ call.op = "merge" /\ exc = "TypeError"
    /\ Len(tests) = 2
    /\ tests[2].start_datetime = None
    /\ tests[1].start_datetime # None

\* C15: three datasets merged as (a, b) then c and as a with (b, c) have
\* the same raw table: the same columns and the same rows in the same order,
\* Data_Point, Cycle_Index and Test_Time included.
C15_MergeAssociative ==
    (Grouped = Len(Groupings) /\ exc = "none") =>
        tests[1].dfdata = tests[4].dfdata

\* C15 witness: both groupings were merged, of a dataset of two cycles and
\* two of one cycle started later: the last of the sixteen rows is in cycle
\* 4, later in test time than the last row of the first dataset.
C15_Witness ==
    /\ Grouped = Len(Groupings) /\ exc = "none"
    /\ tests[1].merged /\ tests[4].merged /\ tests[5].merged
    /\ Len(tests[4].dfdata.rows) = 16
    /\ tests[4].dfdata.rows[16].Data_Point = 16
    /\ tests[4].dfdata.rows[16].Cycle_Index = 4
    /\ tests[4].dfdata.rows[16].Test_Time >
           tests[4].dfdata.rows[8].Test_Time + SecondsPerTick

\* The Data_Point of the last raw row of every cycle, by ascending cycle.
LastPoints(test) ==
    [i \in 1..Cardinality(RawCycles(test)) |->
        SetMax({r.Data_Point : r \in {x \in Range(test.dfdata.rows) :
                   x.Cycle_Index = Ascending(RawCycles(test))[i]}})]

\* C14: make_summary with its defaults, called on the dataset merge() has
\* just made of two datasets that both had a summary made by make_summary,
\* completes and stores one row per cycle of the merged raw table, in
\* ascending order, each built on the last raw row of its cycle.
C14_SummaryOfMerged ==
    [][( /\ call.op = "merge" /\ exc = "none"
         /\ tests[1].dfsummary_made /\ held[1].dfsummary_made
         /\ \A r \in Range(tests[1].dfsummary.rows) :
                "Cycle_Index" \in DOMAIN r
         /\ call'.op = "make_summary" /\ call'.opts = DefaultOpts )
       => /\ exc' = "none"
          /\ Column(tests'[1].dfsummary.rows, "Cycle_Index") =
                 Ascending(RawCycles(tests'[1]))
          /\ Column(tests'[1].dfsummary.rows, "Data_Point") =
                 LastPoints(tests'[1])]_vars

\* Raw rows in order: Data_Point strictly increasing, Cycle_Index positive
\* and never decreasing.
RawOrdered(rows) ==
    /\ \A i \in 1..Len(rows) : rows[i].Cycle_Index > 0
    /\ \A i \in 1..(Len(rows) - 1) :
          /\ rows[i].Data_Point < rows[i + 1].Data_Point
          /\ rows[i].Cycle_Index <= rows[i + 1].Cycle_Index

\* Raw rows without the three columns a merge re-bases.
Unbased(rows) ==
    [i \in 1..Len(rows) |->
        [c \in DOMAIN rows[i] \ {"Data_Point", "Cycle_Index", "Test_Time"} |->
            rows[i][c]]]

\* The raw table m is the one of a followed by the one of b, in order.
MergedInOrder(m, a, b) ==
    /\ RawOrdered(m.dfdata.rows)
    /\ Unbased(m.dfdata.rows) =
           Unbased(a.dfdata.rows) \o Unbased(b.dfdata.rows)

\* C16: the raw table a completed _append or merge leaves on the returned
\* dataset holds the rows of a followed by the rows of b, each in their
\* order, with Data_Point strictly increasing and Cycle_Index positive and
\* never decreasing over the whole table, also when a was itself merged
\* before.
C16_MergeKeepsRawOrder ==
    [][/\ (call'.op = "_append" /\ exc' = "none") =>
            MergedInOrder(tests'[call'.test],
                          tests[call'.test], tests[call'.other])
       /\ (call'.op = "merge" /\ exc' = "none") =>
            MergedInOrder(tests'[1], tests[1], tests[2])]_vars

\* C16 witness: a third dataset of one cycle was appended to two of one
\* cycle merged before: data points and cycles go on across both
\* boundaries.
C16_Witness ==
    /\ Grouped = 2 /\ exc = "none"
    /\ Len(tests[call.other].dfdata.rows) = 4
    /\ Len(tests[2].dfdata.rows) = 4
    /\ Len(tests[call.test].dfdata.rows) = 12
    /\ \A i \in {4, 8} :
          /\ tests[call.test].dfdata.rows[i].Data_Point = i
          /\ tests[call.test].dfdata.rows[i + 1].Data_Point = i + 1
          /\ tests[call.test].dfdata.rows[i + 1].Cycle_Index =
                 tests[call.test].dfdata.rows[i].Cycle_Index + 1
          /\ tests[call.test].dfdata.rows[i + 1].Step_Time = 0

\* C18: a dataset whose mass was never given has no summary made: every
\* make_summary on it raises and leaves dfsummary_made false.
C18_NoSummaryWithoutMass ==
    \A t \in 1..Len(tests) :
        ~tests[t].mass_given =>
            /\ ~tests[t].dfsummary_made
            /\ (call.op = "make_summary" /\ call.test = t) => exc # "none"

\* C19: create_step_table and make_summary leave the raw table of the
\* dataset they work on as it was: the same columns, the same rows, the same
\* values.
C19_RawTableUntouched ==
    [][call'.op \in {"create_step_table", "make_summary"} =>
          tests'[call'.test].dfdata = tests[call'.test].dfdata]_vars

\* The step-table row of r's step built from a raw table that holds the
\* rows of that step and no other.
Alone(test, r) ==
    StepRow(AddIRChangeColumn(Table(test.dfdata.columns,
                                    RowsOfStep(test, r))).rows,
            <<r.cycle, r.step>>, np_float).val

\* Where the first raw row of r's step is in the raw table.
FirstRowOf(test, r) ==
    CHOOSE i \in 1..Len(test.dfdata.rows) :
        /\ test.dfdata.rows[i].Cycle_Index = r.cycle
        /\ test.dfdata.rows[i].Step_Index = r.step
        /\ \A j \in 1..(i - 1) :
              \/ test.dfdata.rows[j].Cycle_Index # r.cycle
              \/ test.dfdata.rows[j].Step_Index # r.step

\* The relative change of Internal_Resistance from raw row i - 1 to raw row
\* i, nan for the first row of the table.
IRChangeInto(test, i) ==
    IF i = 1 THEN NaN
    ELSE Q(test.dfdata.rows[i].Internal_Resistance
               - test.dfdata.rows[i - 1].Internal_Resistance,
           test.dfdata.rows[i - 1].Internal_Resistance)

\* C20 as stated: every row of the step table, IR and IR_pct_change
\* included, is what the rows of its step alone give, whatever raw rows come
\* before or after them.
C20_OwnRowsOnly ==
    \A t \in 1..Len(tests) :
        tests[t].step_table_made =>
            \A k \in 1..Len(tests[t].step_table.rows) :
                tests[t].step_table.rows[k] =
                    Alone(tests[t], tests[t].step_table.rows[k])

\* C20 amended: every value of a step-table row but IR_pct_change is what
\* the rows of its step alone give; IR_pct_change is the relative change of
\* Internal_Resistance from the raw row just before the first row of the
\* step to that first row, nan for the step that starts the raw table.
C20_OwnRowsAndRowBefore ==
    \A t \in 1..Len(tests) :
        tests[t].step_table_made =>
            \A k \in 1..Len(tests[t].step_table.rows) :
                /\ [tests[t].step_table.rows[k] EXCEPT !.IR_pct_change = NaN]
                       = Alone(tests[t], tests[t].step_table.rows[k])
                /\ tests[t].step_table.rows[k].IR_pct_change =
                       IRChangeInto(tests[t],
                           FirstRowOf(tests[t], tests[t].step_table.rows[k]))

\* C20 witness: a step table was built in which a step begins at an
\* internal resistance other than that of the raw row before it.
C20_Witness ==
    \E t \in 1..Len(tests) :
        /\ tests[t].step_table_made
        /\ \E k \in 1..Len(tests[t].step_table.rows) :
              /\ FirstRowOf(tests[t], tests[t].step_table.rows[k]) > 1
              /\ ~IsNaN(tests[t].step_table.rows[k].IR_pct_change)
              /\ ~QEq(tests[t].step_table.rows[k].IR_pct_change, QInt(0))

\* C21: the summary make_summary builds with find_ocv for a dataset is the
\* one it builds for that dataset on a reader that holds nothing else and
\* has no test number selected.
C21_SummaryOfOwnData ==
    [][(call'.op = "make_summary" /\ call'.opts = OcvOpts /\ exc' = "none")
       => tests'[call'.test].dfsummary =
              _make_summary_find_ocv(<<tests[call'.test]>>, 1, None,
                                     np_float).test.dfsummary]_vars

\* C22: on a dataset whose raw table has no rows create_step_table and
\* make_summary, under every choice of options, complete without an
\* exception, store an empty table and set step_table_made, dfsummary_made.
C22_EmptyBuilds ==
    \A t \in 1..Len(tests) :
        tests[t].dfdata.rows = <<>> =>
            /\ (call.op = "create_step_table" /\ call.test = t) =>
                   /\ exc = "none"
                   /\ tests[t].step_table_made
                   /\ tests[t].step_table.rows = <<>>
            /\ (call.op = "make_summary" /\ call.test = t) =>
                   /\ exc = "none"
                   /\ tests[t].dfsummary_made
                   /\ tests[t].dfsummary.rows = <<>>

\* The raw rows f of a step are a discharge at constant current from no
\* discharge capacity, the voltage changing by less than the hard limit (in
\* percent of the voltage at the start).
SlowDischarge(f) ==
    /\ f[1].Current < 0
    /\ \A i \in 1..Len(f) : f[i].Current = f[1].Current
    /\ f[1].Discharge_Capacity = 0
    /\ f[Len(f)].Discharge_Capacity > 0
    /\ f[1].Voltage > 0
    /\ Abs(f[Len(f)].Voltage - f[1].Voltage) * 100
           < stable_voltage_limit_hard.n * f[1].Voltage

NoCurrent(f) == \A i \in 1..Len(f) : f[i].Current = 0

\* The voltage of the raw rows f of a step changed, from the first row to
\* the last, by more than the hard limit (in percent of the voltage at the
\* start): 1 for a rise, -1 for a fall, 0 otherwise.
VoltageMoved(f) ==
    IF f[1].Voltage <= 0 THEN 0
    ELSE IF (f[Len(f)].Voltage - f[1].Voltage) * 100
                > stable_voltage_limit_hard.n * f[1].Voltage THEN 1
    ELSE IF (f[1].Voltage - f[Len(f)].Voltage) * 100
                > stable_voltage_limit_hard.n * f[1].Voltage THEN -1
    ELSE 0

\* C24: in every step table a step without current whose voltage rose by
\* more than the hard voltage limit is typed 'ocvrlx_up', one whose voltage
\* fell by more than it 'ocvrlx_down', and that rule is the only one the
\* step matches.
C24_RelaxationTyped ==
    \A t \in 1..Len(tests) :
        tests[t].step_table_made =>
            \A k \in 1..Len(tests[t].step_table.rows) :
                ( /\ NoCurrent(RowsOfStep(tests[t], tests[t].step_table.rows[k]))
                  /\ VoltageMoved(RowsOfStep(tests[t],
                                             tests[t].step_table.rows[k])) # 0 )
                => /\ tests[t].step_table.rows[k].type =
                          (IF VoltageMoved(RowsOfStep(tests[t],
                                  tests[t].step_table.rows[k])) = 1
                           THEN "ocvrlx_up" ELSE "ocvrlx_down")
                   /\ \A rule \in Range(Rules) :
                          Matches(tests[t].step_table.rows[k], rule)
                              <=> rule = tests[t].step_table.rows[k].type

\* C24 witness: a step table of two steps was built, one of them a rest over
\* which the voltage fell, typed 'ocvrlx_down'.
C24_Witness ==
    \E t \in 1..Len(tests) :
        /\ tests[t].step_table_made
        /\ Len(tests[t].step_table.rows) = 2
        /\ \E k \in 1..Len(tests[t].step_table.rows) :
              /\ tests[t].step_table.rows[k].type = "ocvrlx_down"
              /\ NoCurrent(RowsOfStep(tests[t], tests[t].step_table.rows[k]))
              /\ VoltageMoved(RowsOfStep(tests[t],
                                         tests[t].step_table.rows[k])) = -1
\* The loss and the cumulated loss of row j of a summary, told from the
\* capacity column cap of the stored rows.
LossFollows(rows, j, cap, loss, cum) ==
    /\ rows[j][loss] = (IF j = 1 THEN QInt(0)
                        ELSE QSub(rows[j - 1][cap], rows[j][cap]))
    /\ rows[j][cum] = (IF j = 1 THEN rows[1][loss]
                       ELSE QAdd(rows[j - 1][cum], rows[j][loss]))

\* C25: in every summary make_summary has built, the discharge capacity loss
\* is 0 in the first row and in every later row the discharge capacity of the
\* row before minus that of the row; the charge capacity loss likewise; and
\* each cumulated loss is the running sum of its loss column.
C25_CapacityLoss ==
    \A t \in 1..Len(tests) :
        tests[t].dfsummary_made =>
            \A j \in 1..Len(tests[t].dfsummary.rows) :
                /\ LossFollows(tests[t].dfsummary.rows, j,
                               "Discharge_Capacity(mAh/g)",
                               "Discharge_Capacity_Loss(mAh/g)",
                               "Cumulated_Discharge_Capacity_Loss(mAh/g)")
                /\ LossFollows(tests[t].dfsummary.rows, j,
                               "Charge_Capacity(mAh/g)",
                               "Charge_Capacity_Loss(mAh/g)",
                               "Cumulated_Charge_Capacity_Loss(mAh/g)")

\* C25 witness: a summary of three rows was built whose discharge capacity
\* loss is not 0 in the second and in the third row.
C25_Witness ==
    \E t \in 1..Len(tests) :
        /\ tests[t].dfsummary_made
        /\ call.op = "make_summary"
        /\ exc = "none"
        /\ Len(tests[t].dfsummary.rows) = 3
        /\ tests[t].dfsummary.rows[2]["Discharge_Capacity_Loss(mAh/g)"]
               # QInt(0)
        /\ tests[t].dfsummary.rows[3]["Discharge_Capacity_Loss(mAh/g)"]
               # QInt(0)
        /\ tests[t].dfsummary.rows[3]["Cumulated_Discharge_Capacity_Loss(mAh/g)"]
               # tests[t].dfsummary.rows[3]["Discharge_Capacity_Loss(mAh/g)"]
\* The steps of the stored step table that have the type in the cycle, in the
\* order of the table.
TypedSteps(test, steptype, cycle) ==
    SelectSeq(test.step_table.rows,
              LAMBDA s : s.type = steptype /\ s.cycle = cycle)

\* The voltage logged last in the last of these steps, 0 without one.
LastVoltageOf(test, steps) ==
    IF steps = <<>> THEN QInt(0)
    ELSE QInt(RowsOfStep(test, steps[Len(steps)])
                  [Len(RowsOfStep(test, steps[Len(steps)]))].Voltage)

\* C26: a summary built with find_end_voltage has in every row, as
\* end_voltage_discharge (end_voltage_charge), the voltage logged last in the
\* last step typed 'discharge' ('charge') of the row's cycle, and 0 when the
\* cycle has no step of that type.
C26_EndVoltage ==
    \A t \in 1..Len(tests) :
        ( /\ call.op = "make_summary"
          /\ call.test = t
          /\ call.opts.find_end_voltage
          /\ exc = "none" )
        => \A j \in 1..Len(tests[t].dfsummary.rows) :
              /\ tests[t].dfsummary.rows[j].end_voltage_discharge =
                     LastVoltageOf(tests[t],
                         TypedSteps(tests[t], "discharge",
                                    tests[t].dfsummary.rows[j].Cycle_Index))
              /\ tests[t].dfsummary.rows[j].end_voltage_charge =
                     LastVoltageOf(tests[t],
                         TypedSteps(tests[t], "charge",
                                    tests[t].dfsummary.rows[j].Cycle_Index))

\* C26 witness: a summary was built with find_end_voltage in which one cycle
\* has a discharge step of several rows that ends at another voltage than it
\* starts at, and another cycle has no discharge step and the end voltage 0.
C26_Witness ==
    \E t \in 1..Len(tests) :
        /\ call.op = "make_summary"
        /\ call.test = t
        /\ call.opts.find_end_voltage
        /\ exc = "none"
        /\ \E j, k \in 1..Len(tests[t].dfsummary.rows) :
              /\ TypedSteps(tests[t], "discharge",
                     tests[t].dfsummary.rows[j].Cycle_Index) # <<>>
              /\ tests[t].dfsummary.rows[j].end_voltage_discharge #
                     QInt(RowsOfStep(tests[t],
                              TypedSteps(tests[t], "discharge",
                                  tests[t].dfsummary.rows[j].Cycle_Index)[1])
                          [1].Voltage)
              /\ TypedSteps(tests[t], "discharge",
                     tests[t].dfsummary.rows[k].Cycle_Index) = <<>>
              /\ tests[t].dfsummary.rows[k].end_voltage_discharge = QInt(0)
\* The columns a build with the options inserts, in the order of the inserts.
InsertedInOrder(opts) ==
    CoreInserted \o
    (IF opts.find_end_voltage
     THEN <<"end_voltage_discharge", "end_voltage_charge">> ELSE <<>>) \o
    (IF opts.find_ir THEN <<"ir_discharge", "ir_charge">> ELSE <<>>)

Backwards(f) == [i \in 1..Len(f) |-> f[Len(f) + 1 - i]]

\* The columns of a table from position n on, at most k of them.
ColumnsFrom(columns, n, k) ==
    [i \in 1..(IF Len(columns) - n + 1 < k THEN Len(columns) - n + 1 ELSE k)
        |-> columns[n + i - 1]]

IdentityColumns == {"date_time_txt", "Test_Time", "Data_Point", "Cycle_Index"}

\* C27 as stated: in the summary a build has stored the four identity columns
\* take the first four positions and the derived columns follow them in the
\* order in which the build inserted them.
C27_DerivedInInsertionOrder ==
    \A t \in 1..Len(tests) :
        ( /\ call.op = "make_summary"
          /\ call.test = t
          /\ exc = "none" )
        => /\ Range(ColumnsFrom(tests[t].dfsummary.columns, 1, 4)) =
                  IdentityColumns
           /\ ColumnsFrom(tests[t].dfsummary.columns, 5,
                          Len(InsertedInOrder(call.opts))) =
                  InsertedInOrder(call.opts)

\* C27: in the summary a build has stored the first four columns are
\* Cycle_Index, Data_Point, Test_Time and the datetime, the derived columns
\* follow them with the one inserted last first, and the columns taken over
\* from the raw table come after them in the order of the raw table.
C27_DerivedLastInsertedFirst ==
    \A t \in 1..Len(tests) :
        ( /\ call.op = "make_summary"
          /\ call.test = t
          /\ exc = "none" )
        => tests[t].dfsummary.columns =
               <<"Cycle_Index", "Data_Point", "Test_Time", "date_time_txt">>
               \o Backwards(InsertedInOrder(call.opts))
               \o SelectSeq(tests[t].dfdata.columns,
                            LAMBDA c :
                                /\ c \notin IdentityColumns
                                /\ c \in Range(tests[t].dfsummary.columns))

\* C27 witness: a summary was built with find_end_voltage and find_ir, so
\* that fourteen derived columns were inserted.
C27_Witness ==
    \E t \in 1..Len(tests) :
        /\ call.op = "make_summary"
        /\ call.test = t
        /\ exc = "none"
        /\ call.opts.find_end_voltage
        /\ call.opts.find_ir
        /\ tests[t].dfsummary_made
        /\ Len(tests[t].dfsummary.rows) >= 2
        /\ Len(tests[t].dfsummary.columns) >= 18
\* The frozen cycles of a call, none without freeze_indexes.
Frozen(opts) ==
    IF opts.freeze_indexes = NoList THEN {} ELSE Range(opts.freeze_indexes)

\* C28: a call of yank_outliers removes no cycle listed in freeze_indexes:
\* every frozen cycle index in the summary of a cell before the call is in
\* the summary of that cell after it, whatever the other arguments are.
C28_FrozenCyclesStay ==
    [][call'.op = "yank_outliers"
       => \A k \in 1..Len(batch) :
              Frozen(call'.opts) \intersect Index(batch[k])
                  \subseteq Index(batch'[k])]_vars
\* The rules a step-table row matches, by name.
MatchedTypes(r) == {Rules[k] : k \in MatchingRules(r)}

\* C29: a row of a step table matches at most one rule of create_step_table,
\* unless it matches discharge together with cv_discharge or charge together
\* with cv_charge and nothing else; a row that matches one rule has the type
\* of that rule, whatever the order of the rules.
C29_RulesExclusive ==
    \A t \in 1..Len(tests) :
        tests[t].step_table_made =>
            \A r \in Range(tests[t].step_table.rows) :
                /\ \/ Cardinality(MatchedTypes(r)) <= 1
                   \/ MatchedTypes(r) = {"discharge", "cv_discharge"}
                   \/ MatchedTypes(r) = {"charge", "cv_charge"}
                /\ Cardinality(MatchedTypes(r)) = 1 => MatchedTypes(r) = {r.type}

\* C29 witness: a step table holds a row that matches discharge and
\* cv_discharge and a row that matches one rule alone.
C29_Witness ==
    \E t \in 1..Len(tests) :
        /\ tests[t].step_table_made
        /\ \E r, q \in Range(tests[t].step_table.rows) :
              /\ MatchedTypes(r) = {"discharge", "cv_discharge"}
              /\ Cardinality(MatchedTypes(q)) = 1
\* What C30 asks of the dataset a call of loadcell has appended for a cell:
\* read from res-files, the mass passed for the cell and a summary built;
\* read from hdf5, the mass of the file and no summary built; else empty.
AsLoaded(test, cell, mass) ==
    IF cell.source = "res" /\ cell.loads
    THEN /\ test # EmptyTest
         /\ test.mass_given
         /\ test.mass = mass
         /\ test.dfsummary_made
    ELSE test = LoadedTest(cell)

\* C30: a call of loadcell that completes leaves the datasets the reader held
\* before it as they were, and of the datasets it appends exactly the
\* non-empty ones read from res-files have the mass passed for their cell and
\* a summary built.
C30_MassesToLoadedCells ==
    [][(call'.op = "loadcell" /\ exc' = "none")
       => /\ Len(tests') = Len(tests) + Len(call'.opts.cells)
          /\ \A k \in 1..Len(tests) : tests'[k] = tests[k]
          /\ \A i \in 1..Len(call'.opts.cells) :
                AsLoaded(tests'[Len(tests) + i], call'.opts.cells[i],
                         call'.opts.masses[i])]_vars
====
